---------------------------- MODULE Spec2Model ----------------------------
(***************************************************************************)
(* A model of the rendering core of DesktopGrouping: the DIB icon decoder  *)
(* (graphics/drawing.rs and the older MyGraphics::draw_icon of             *)
(* graphics/graphics.rs), the per-frame drawing of a child window, the     *)
(* final pixmap -> surface conversion, the colour state of MyGraphics and  *)
(* the colour string parser / formatter.                                   *)
(*                                                                         *)
(* Each part has its own specification (SpecIcon, SpecFrame, SpecFinish,   *)
(* SpecColor, SpecParse); the variables of the other parts stay at their   *)
(* idle values.                                                            *)
(*                                                                         *)
(* Machine integers are scaled: a u32 of the program is a WordBits-bit     *)
(* word here (WordMod = 2^WordBits), an i32 its signed counterpart, so     *)
(* that the wrap-around of the program's 32-bit arithmetic happens with    *)
(* bitmaps of a few pixels.  usize (64 bit) never wraps at these sizes.    *)
(***************************************************************************)
EXTENDS Integers, Sequences, FiniteSets, TLC

---------------------------------------------------------------------------
(* Bounds of the model *)

WordBits == 5
MaxDim == 3
MaxLen == 16
MaxSeed == 1

(* Program constants *)

BI_RGB == 0

---------------------------------------------------------------------------
(* Machine arithmetic *)

WordMod == 2 ^ WordBits
IntMax == (WordMod \div 2) - 1
IntMin == 0 - (WordMod \div 2)

U32(x) == x % WordMod

SetMin(S) == CHOOSE x \in S : \A y \in S : x <= y
SetMax(S) == CHOOSE x \in S : \A y \in S : x >= y
Min2(a, b) == IF a <= b THEN a ELSE b
Max2(a, b) == IF a >= b THEN a ELSE b

---------------------------------------------------------------------------
VARIABLES
    \* the icon decoder
    icon_info,        \* BITMAPINFO header handed to draw_icon
    pixel_data,       \* the pixel byte buffer handed to draw_icon
    expected_size,    \* placeholder size requested by the caller
    overflow_checks,  \* TRUE: build with overflow checks (debug), FALSE: wrapping
    icon_result,      \* what the last draw_icon call did
    \* one child window and its frame
    groups,           \* ChildWindow.groups: the items, each with its icon cache
    frame,            \* what the last ChildWindow::draw painted
    \* the pixmap and the presentation surface
    paint_color,      \* the colour the pixmap was last filled with
    pixmap,           \* MyGraphics.pixmap: premultiplied RGBA pixels
    buffer,           \* the softbuffer surface words written by draw_finish
    presented,        \* TRUE when buffer is the conversion of the current pixmap
    \* the colour state of MyGraphics
    background_color,
    border_color,
    \* the colour string functions
    color_str,        \* the string handed to parse_color
    parsed,           \* results of the parse_color implementations
    hex_string,       \* color_to_hex_string of the parsed colour
    reparsed,         \* parse_color of hex_string
    \* the last line ChildWindow::set_background_color wrote to the log
    color_log,
    \* colors::clamp_alpha applied to a colour, once and twice
    clamp,
    \* the grid layout of one MyGraphics (or the arguments and results of
    \* the free functions of layout.rs) and the last get_item_rect_f32
    layout,
    \* the ellipsis step of draw_text: the text, max_width and what it chose
    text,
    \* the sizes MyGraphics keeps, and what the last draw_finish read
    surface,
    \* the calls of calculate_border_color made so far, with their results
    border_calls,
    \* the WindowManager: its windows, key and button state, click record,
    \* cursor positions, and what the last event made it do
    manager

iconVars == <<icon_info, pixel_data, expected_size, overflow_checks, icon_result>>
frameVars == <<groups, frame>>
finishVars == <<paint_color, pixmap, buffer, presented>>
colorVars == <<background_color, border_color, color_log>>
parseVars == <<color_str, parsed, hex_string, reparsed>>

vars == <<iconVars, frameVars, finishVars, colorVars, parseVars, clamp, layout, text,
          surface, border_calls, manager>>

NoResult == [op |-> "none", outcome |-> "none", placeholder |-> <<0, 0>>,
             reads |-> {}, copied |-> {}, pixels |-> <<>>]

NoFrame == [drawn |-> FALSE, items |-> <<>>, finished |-> FALSE, calls |-> <<>>]

NoColor == [r |-> 0, g |-> 0, b |-> 0, a |-> 0]

(* f32 values are kept exactly: [m, e] is m / 2^e with a 24-bit mantissa   *)
(* 2^23 <= m < 2^24, and [0, 0] is 0.0.                                     *)
F32Zero == [m |-> 0, e |-> 0]

(* Option<Color> results: None, and "not called yet" *)
ColorNone ==
    [ran |-> TRUE, some |-> FALSE,
     color |-> [r |-> F32Zero, g |-> F32Zero, b |-> F32Zero, a |-> F32Zero]]
NotRun == [ColorNone EXCEPT !.ran = FALSE]

(* The values the variables of a part keep while another part runs *)
IconIdle ==
    /\ icon_info = [biWidth |-> 0, biHeight |-> 0, biBitCount |-> 0, biCompression |-> 0]
    /\ pixel_data = <<>>
    /\ expected_size = 0
    /\ overflow_checks = FALSE
    /\ icon_result = NoResult

FrameIdle ==
    /\ groups = <<>>
    /\ frame = NoFrame

FinishIdle ==
    /\ paint_color = NoColor
    /\ pixmap = <<>>
    /\ buffer = <<>>
    /\ presented = FALSE

NoLog == [level |-> "none", color_str |-> <<>>]

ColorIdle ==
    /\ background_color = NoColor
    /\ border_color = NoColor
    /\ color_log = NoLog

ClampIdle ==
    clamp = [applied |-> 0, color |-> NoColor, once |-> NoColor, twice |-> NoColor]

NoRect == [some |-> FALSE, x |-> 0, y |-> 0, width |-> 0, height |-> 0]

NoLayout ==
    [impl |-> "none", width |-> 0, height |-> 0, scale_factor |-> 0,
     padding |-> 0, layout_icon_size |-> 0, padding_under_icon |-> 0,
     text_height |-> 0, text_font_size |-> 0, adjust_select_rect |-> 0,
     items_per_row |-> 0, max_text_width |-> 0, item_width |-> 0, item_height |-> 0,
     calculated |-> FALSE, panicked |-> FALSE,
     queried |-> FALSE, index |-> 0, rect |-> NoRect, op |-> "none"]

LayoutIdle == layout = NoLayout

TextIdle ==
    text = [impl |-> "none", text |-> <<>>, max_width |-> 0, done |-> FALSE,
            text_to_draw |-> <<>>, final_text_width |-> 0,
            truncated_len |-> 0, panicked |-> FALSE, caret_advance |-> 0]

BorderIdle == border_calls = <<>>

NoClick == [some |-> FALSE, id |-> 0, time |-> 0]

NoPos == [some |-> FALSE, x |-> 0, y |-> 0]

NoHit == [some |-> FALSE, id |-> 0, index |-> 0]

NoChild == [managed |-> FALSE, groups |-> <<>>, id_str |-> "", width |-> 0]

(* The keys settings.children can have: local times to the millisecond *)
LocalTimes == {"20240101120000004", "20240101120000005"}

NoEntry == [some |-> FALSE, icons |-> <<>>]

NoSettings == [id_str \in LocalTimes |-> NoEntry]

NoLast ==
    [kind |-> "none", window_id |-> 0, pressed |-> FALSE, is_double_click |-> FALSE,
     executed |-> "", dragged |-> 0, asked |-> FALSE, answer |-> FALSE,
     opened |-> "", panicked |-> FALSE, wheeled |-> 0]

NoKeys == [ctrl |-> 0, shift |-> 0, left |-> FALSE]

NoControl == [keybord_pressed |-> FALSE, mouse_pressed |-> FALSE]

NoManager ==
    [children |-> <<NoChild, NoChild>>, focused_id |-> 0,
     is_moving |-> NoControl, is_resizing |-> NoControl,
     hovered_icon |-> NoHit, last_click |-> NoClick,
     last_cursor_pos |-> <<NoPos, NoPos>>,
     last_cursor_window_id |-> 0, created |-> 0,
     settings |-> NoSettings, file |-> NoSettings,
     now |-> 0, keys |-> NoKeys, last |-> NoLast]

ManagerIdle == manager = NoManager

SurfaceIdle ==
    surface = [window |-> <<0, 0>>, width |-> 0, height |-> 0,
               pixmap_size |-> <<0, 0>>, surface_size |-> <<0, 0>>,
               resized |-> FALSE, panicked |-> FALSE,
               finish |-> [done |-> FALSE, pixels |-> {}, out_of_range |-> FALSE]]

ParseIdle ==
    /\ color_str = <<>>
    /\ parsed = [colors |-> NotRun, graphics |-> NotRun]
    /\ hex_string = <<>>
    /\ reparsed = NotRun

---------------------------------------------------------------------------
(* The DIB decoder *)

Transparent == [r |-> 0, g |-> 0, b |-> 0, a |-> 0]

(* header.biWidth.abs() as u32: abs of the minimum i32 overflows; a         *)
(* wrapping build leaves it unchanged and the cast gives 2^(w-1).           *)
AbsU32(x) == IF x < 0 THEN U32(0 - x) ELSE x
AbsOverflows(x) == x = IntMin

(* tiny_skia Pixmap::new: None for a zero dimension or when a row of        *)
(* 4-byte pixels does not fit a positive i32.                               *)
PixmapNew(width, height) ==
    /\ width > 0
    /\ height > 0
    /\ width * 4 <= IntMax

(* ((width as usize * bytes_per_pixel + 3) & !3) as u32 *)
Stride(width, bytes_per_pixel) ==
    U32(((width * bytes_per_pixel + 3) \div 4) * 4)

(* (stride * height) as usize, a u32 product *)
ExpectedDataSize(stride, height) == U32(stride * height)
ExpectedDataSizeOverflows(stride, height) == stride * height >= WordMod

SrcRowIndex(is_top_down, height, y_dest) ==
    IF is_top_down THEN y_dest ELSE height - 1 - y_dest

(* (src_row_index * stride + x_dest * bytes_per_pixel as u32) as usize *)
SrcOffset(row, stride, x_dest, bytes_per_pixel) ==
    U32(U32(row * stride) + U32(x_dest * bytes_per_pixel))
SrcOffsetOverflows(row, stride, x_dest, bytes_per_pixel) ==
    \/ row * stride >= WordMod
    \/ x_dest * bytes_per_pixel >= WordMod
    \/ U32(row * stride) + U32(x_dest * bytes_per_pixel) >= WordMod

(* A faulty variant of the guard below: it tests the first byte only. *)
SrcInBoundsFirstByteOnly(src_offset, bytes_per_pixel, len) ==
    src_offset < len

(* if src_offset + bytes_per_pixel > pixel_data.len() { continue; } *)
SrcInBounds(src_offset, bytes_per_pixel, len) ==
    src_offset + bytes_per_pixel <= len

(* &pixel_data[src_offset..src_offset + bytes_per_pixel]: the slice is      *)
(* taken when the range lies in the buffer and panics otherwise.            *)
SliceInRange(src_offset, bytes_per_pixel, len) ==
    src_offset + bytes_per_pixel <= len

(* pixel_data is 0-indexed in the program, 1-indexed here; no byte is       *)
(* obtained from an offset outside the buffer.                              *)
ByteAt(data, off) == IF off < Len(data) THEN data[off + 1] ELSE 0

(* (y_dest * width + x_dest) as usize, a u32 expression *)
DestIndex(y_dest, width, x_dest) == U32(U32(y_dest * width) + x_dest)
DestIndexOverflows(y_dest, width, x_dest) ==
    \/ y_dest * width >= WordMod
    \/ U32(y_dest * width) + x_dest >= WordMod

(* (c as u16 * a as u16 / 255) as u8, and (0,0,0) when a = 0 *)
PremulChannel(c, a) == IF a > 0 THEN (c * a) \div 255 ELSE 0

(* PremultipliedColorU8::from_rgba: None when a colour exceeds alpha *)
PremultipliedFromRgba(r, g, b, a) == r <= a /\ g <= a /\ b <= a

(* The pixel copy loop shared by both decoders (drawing.rs 69-114,          *)
(* graphics.rs 398-426).  Pixels are visited in the order k = y_dest *      *)
(* width + x_dest.  premultiply = TRUE is drawing.rs (colours scaled by     *)
(* alpha before from_rgba), FALSE is graphics.rs (raw bytes to from_rgba).  *)
(* In a build with overflow checks the first overflowing u32 expression     *)
(* panics and ends the loop.                                                *)
DecodeLoop(width, height, is_top_down, bytes_per_pixel, stride, data, checks, premultiply) ==
    LET n == width * height
        Y(k) == k \div width
        X(k) == k % width
        Row(k) == SrcRowIndex(is_top_down, height, Y(k))
        Off(k) == SrcOffset(Row(k), stride, X(k), bytes_per_pixel)
        Readable(k) == SrcInBounds(Off(k), bytes_per_pixel, Len(data))
        B(k) == ByteAt(data, Off(k))
        G(k) == ByteAt(data, Off(k) + 1)
        R(k) == ByteAt(data, Off(k) + 2)
        A(k) == IF bytes_per_pixel = 4 THEN ByteAt(data, Off(k) + 3) ELSE 255
        Color(k) == IF premultiply
                    THEN [r |-> PremulChannel(R(k), A(k)), g |-> PremulChannel(G(k), A(k)),
                          b |-> PremulChannel(B(k), A(k)), a |-> A(k)]
                    ELSE [r |-> R(k), g |-> G(k), b |-> B(k), a |-> A(k)]
        Valid(k) == PremultipliedFromRgba(Color(k).r, Color(k).g, Color(k).b, Color(k).a)
        SrcPanic(k) == checks /\ SrcOffsetOverflows(Row(k), stride, X(k), bytes_per_pixel)
        SlicePanic(k) == /\ ~SrcPanic(k)
                         /\ Readable(k)
                         /\ ~SliceInRange(Off(k), bytes_per_pixel, Len(data))
        DestPanic(k) == /\ checks
                        /\ ~SrcPanic(k)
                        /\ ~SlicePanic(k)
                        /\ Readable(k)
                        /\ Valid(k)
                        /\ DestIndexOverflows(Y(k), width, X(k))
        panics == {k \in 0..(n - 1) : SrcPanic(k) \/ SlicePanic(k) \/ DestPanic(k)}
        stop == IF panics = {} THEN n ELSE SetMin(panics)
        \* the pixels whose source slice was requested
        didRead == {k \in 0..(n - 1) : /\ k <= stop
                                       /\ (k = stop => (SlicePanic(k) \/ DestPanic(k)))
                                       /\ Readable(k)}
        written == {k \in 0..(n - 1) : k < stop /\ Readable(k) /\ Valid(k)}
        WritersOf(i) == {k \in written : DestIndex(Y(k), width, X(k)) = i}
    IN  [panic  |-> panics # {},
         reads  |-> UNION {Off(k)..(Off(k) + bytes_per_pixel - 1) : k \in didRead},
         copied |-> written,
         pixels |-> [i \in 0..(n - 1) |->
                        IF WritersOf(i) = {} THEN Transparent
                        ELSE Color(SetMax(WritersOf(i)))]]

Panicked(op) ==
    [op |-> op, outcome |-> "panic", placeholder |-> <<0, 0>>, reads |-> {},
     copied |-> {}, pixels |-> <<>>]

Placeholder(op, w, h) ==
    [op |-> op, outcome |-> "placeholder", placeholder |-> <<w, h>>, reads |-> {},
     copied |-> {}, pixels |-> <<>>]

Decoded(op, loop) ==
    [op |-> op, outcome |-> IF loop.panic THEN "panic" ELSE "decoded",
     placeholder |-> <<0, 0>>, reads |-> loop.reads, copied |-> loop.copied,
     pixels |-> loop.pixels]

(* draw_icon of graphics/drawing.rs: the result of one call *)
draw_icon(header, data, size, checks) ==
    LET width == AbsU32(header.biWidth)
        height == AbsU32(header.biHeight)
        is_top_down == header.biHeight < 0
        bpp == header.biBitCount
        bytes_per_pixel == bpp \div 8
        stride == Stride(width, bytes_per_pixel)
    IN  IF checks /\ (AbsOverflows(header.biWidth) \/ AbsOverflows(header.biHeight))
        THEN Panicked("draw_icon")
        ELSE IF \/ width = 0
                \/ height = 0
                \/ (bpp # 32 /\ bpp # 24)
                \/ header.biCompression # BI_RGB
        THEN Placeholder("draw_icon", size, size)
        ELSE IF ~PixmapNew(width, height)
        THEN Placeholder("draw_icon", size, size)
        ELSE IF checks /\ ExpectedDataSizeOverflows(stride, height)
        THEN Panicked("draw_icon")
        ELSE IF Len(data) < ExpectedDataSize(stride, height)
        THEN Placeholder("draw_icon", size, size)
        ELSE Decoded("draw_icon",
                     DecodeLoop(width, height, is_top_down, bytes_per_pixel, stride,
                                data, checks, TRUE))

(* MyGraphics::draw_icon of graphics/graphics.rs: it has no requested size, *)
(* the placeholder is sized width.max(1) x height.max(1) from the header.   *)
MyGraphics_draw_icon(header, data, checks) ==
    LET width == AbsU32(header.biWidth)
        height == AbsU32(header.biHeight)
        is_top_down == header.biHeight < 0
        bpp == header.biBitCount
        bytes_per_pixel == bpp \div 8
        stride == Stride(width, bytes_per_pixel)
    IN  IF checks /\ (AbsOverflows(header.biWidth) \/ AbsOverflows(header.biHeight))
        THEN Panicked("MyGraphics_draw_icon")
        ELSE IF \/ width = 0
                \/ height = 0
                \/ (bpp # 32 /\ bpp # 24)
                \/ header.biCompression # BI_RGB
        THEN Placeholder("MyGraphics_draw_icon", Max2(width, 1), Max2(height, 1))
        ELSE IF ~PixmapNew(width, height)
        THEN Placeholder("MyGraphics_draw_icon", Max2(width, 1), Max2(height, 1))
        ELSE IF checks /\ ExpectedDataSizeOverflows(stride, height)
        THEN Panicked("MyGraphics_draw_icon")
        ELSE IF Len(data) < ExpectedDataSize(stride, height)
        THEN Placeholder("MyGraphics_draw_icon", Max2(width, 1), Max2(height, 1))
        ELSE Decoded("MyGraphics_draw_icon",
                     DecodeLoop(width, height, is_top_down, bytes_per_pixel, stride,
                                data, checks, FALSE))

---------------------------------------------------------------------------
(* Inputs of the decoder *)

Dims == (0 - MaxDim)..MaxDim \cup {IntMin}
BitCounts == {16, 24, 32}
Compressions == {BI_RGB, 3}
Headers == [biWidth : Dims, biHeight : Dims, biBitCount : BitCounts,
            biCompression : Compressions]
ExpectedSizes == {2, 3}

(* The bytes of a buffer: a fixed pattern per seed, so that a buffer is     *)
(* determined by its length and seed.                                       *)
Palette == <<255, 0, 128, 64, 200>>
PatternByte(seed, i) == Palette[((i * 3 + seed) % 5) + 1]
Buffer(seed, len) == [i \in 1..len |-> PatternByte(seed, i)]
Buffers == {Buffer(seed, len) : seed \in 0..MaxSeed, len \in 0..MaxLen}

IconInit ==
    /\ icon_info \in Headers
    /\ pixel_data \in Buffers
    /\ expected_size \in ExpectedSizes
    /\ overflow_checks \in BOOLEAN
    /\ icon_result = NoResult
    /\ FrameIdle /\ FinishIdle /\ ColorIdle /\ ParseIdle
    /\ ClampIdle /\ LayoutIdle /\ TextIdle /\ SurfaceIdle
    /\ BorderIdle /\ ManagerIdle

DrawIcon ==
    /\ icon_result.op = "none"
    /\ icon_result' = draw_icon(icon_info, pixel_data, expected_size, overflow_checks)
    /\ UNCHANGED <<icon_info, pixel_data, expected_size, overflow_checks>>
    /\ UNCHANGED <<frameVars, finishVars, colorVars, parseVars, clamp, layout, text, surface, border_calls, manager>>

MyGraphicsDrawIcon ==
    /\ icon_result.op = "none"
    /\ icon_result' = MyGraphics_draw_icon(icon_info, pixel_data, overflow_checks)
    /\ UNCHANGED <<icon_info, pixel_data, expected_size, overflow_checks>>
    /\ UNCHANGED <<frameVars, finishVars, colorVars, parseVars, clamp, layout, text, surface, border_calls, manager>>

IconNext ==
    \/ DrawIcon
    \/ MyGraphicsDrawIcon

SpecIcon == IconInit /\ [][IconNext]_vars

---------------------------------------------------------------------------
(* Properties of the decoder *)

HeaderWidth == AbsU32(icon_info.biWidth)
HeaderHeight == AbsU32(icon_info.biHeight)
HeaderBytesPerPixel == icon_info.biBitCount \div 8
\* ceil(width * bytesPerPixel / 4) * 4 and the required length, as numbers
ExactStride == ((HeaderWidth * HeaderBytesPerPixel + 3) \div 4) * 4
ExactRequired == ExactStride * HeaderHeight

(* C1: whatever the header and the buffer, every byte offset draw_icon      *)
(* (either implementation) requests from the buffer is below the buffer     *)
(* length, also when stride*height or row*stride+x*bytesPerPixel wraps.     *)
C1_ReadsInsideBuffer ==
    \A off \in icon_result.reads : off >= 0 /\ off < Len(pixel_data)

(* C1 witness: a wrapping build accepted a buffer shorter than the exact    *)
(* stride*height because the product wrapped, decoded it, read some pixels  *)
(* and skipped others.                                                      *)
C1_Witness ==
    /\ icon_result.outcome = "decoded"
    /\ ~overflow_checks
    /\ Len(pixel_data) < ExactRequired
    /\ icon_result.reads # {}
    /\ Cardinality(icon_result.copied) < HeaderWidth * HeaderHeight

(* The rejection conditions as C3 lists them *)
C3_Rejected ==
    \/ HeaderWidth = 0
    \/ HeaderHeight = 0
    \/ icon_info.biBitCount \notin {24, 32}
    \/ icon_info.biCompression # BI_RGB
    \/ Len(pixel_data) < ExactRequired

(* C3 as stated: draw_icon (drawing.rs) draws the placeholder and copies    *)
(* nothing exactly in the listed rejection cases, and decodes the bitmap    *)
(* without a placeholder in every other case.                               *)
C3_PlaceholderIffRejected ==
    icon_result.op = "draw_icon" =>
        /\ C3_Rejected =>
              (icon_result.outcome = "placeholder" /\ icon_result.copied = {})
        /\ ~C3_Rejected => icon_result.outcome = "decoded"

(* C4 as stated: whenever a decoder falls back to the placeholder, the      *)
(* placeholder is the square of the size the caller requested, whatever     *)
(* the header declares.                                                     *)
C4_PlaceholderIsRequestedSquare ==
    icon_result.outcome = "placeholder" =>
        icon_result.placeholder = <<expected_size, expected_size>>

(* The source pixel of the destination pixel (x, y), read from the header   *)
(* and the buffer as C28 and C29 describe it: the row, the byte offset, and *)
(* the premultiplied colour of the bytes B, G, R [, A] found there.         *)
SourceRow(y) == IF icon_info.biHeight < 0 THEN y ELSE HeaderHeight - 1 - y
SourceOffset(x, y) == SourceRow(y) * ExactStride + x * HeaderBytesPerPixel
SourceInBuffer(x, y) == SourceOffset(x, y) + HeaderBytesPerPixel <= Len(pixel_data)
SourceAlpha(x, y) ==
    IF HeaderBytesPerPixel = 4 THEN pixel_data[SourceOffset(x, y) + 4] ELSE 255
SourcePremultiplied(x, y) ==
    LET alpha == SourceAlpha(x, y)
        scaled(c) == IF alpha = 0 THEN 0 ELSE (c * alpha) \div 255
    IN  [r |-> scaled(pixel_data[SourceOffset(x, y) + 3]),
         g |-> scaled(pixel_data[SourceOffset(x, y) + 2]),
         b |-> scaled(pixel_data[SourceOffset(x, y) + 1]),
         a |-> alpha]

(* C28 as stated: when a decoder accepted the bitmap, every source pixel    *)
(* that lies in the buffer was written to the icon raster, as its colour    *)
(* channels times alpha / 255 (0 for alpha 0) with its alpha, so that no    *)
(* written channel exceeds alpha and no pixel is dropped.                   *)
C28_WrittenPixelsPremultiplied ==
    icon_result.outcome = "decoded" =>
        \A x \in 0..(HeaderWidth - 1), y \in 0..(HeaderHeight - 1) :
            SourceInBuffer(x, y) =>
                LET k == y * HeaderWidth + x
                IN  /\ k \in icon_result.copied
                    /\ icon_result.pixels[k] = SourcePremultiplied(x, y)
                    /\ icon_result.pixels[k].r <= icon_result.pixels[k].a
                    /\ icon_result.pixels[k].g <= icon_result.pixels[k].a
                    /\ icon_result.pixels[k].b <= icon_result.pixels[k].a

(* C29 as stated: when draw_icon (drawing.rs) accepted the bitmap, what it  *)
(* read for a destination pixel (x, y) it read from row y (top-down) or     *)
(* height - 1 - y (bottom-up) at byte offset row * stride + x *             *)
(* bytesPerPixel, as B, G, R [, A] with alpha 255 for 24-bit input: the     *)
(* bytes read are those of the copied pixels' offsets and each copied       *)
(* pixel holds the colour found at its offset.                              *)
C29_ReadsRowAndOffset ==
    (icon_result.op = "draw_icon" /\ icon_result.outcome = "decoded") =>
        /\ \A x \in 0..(HeaderWidth - 1), y \in 0..(HeaderHeight - 1) :
              (y * HeaderWidth + x) \in icon_result.copied =>
                  /\ SourceInBuffer(x, y)
                  /\ icon_result.pixels[y * HeaderWidth + x] = SourcePremultiplied(x, y)
        /\ icon_result.reads =
              UNION { SourceOffset(x, y)..(SourceOffset(x, y) + HeaderBytesPerPixel - 1) :
                        <<x, y>> \in { p \in (0..(HeaderWidth - 1)) \X (0..(HeaderHeight - 1)) :
                                         (p[2] * HeaderWidth + p[1]) \in icon_result.copied } }

---------------------------------------------------------------------------
(* One frame of a child window: ChildWindow::draw (child_window.rs) over    *)
(* MyGraphics::draw_group (graphics.rs), icons loaded lazily by             *)
(* IconInfo::get_or_load_icon (file_drag.rs).                               *)

MaxItems == 3

(* What the icon provider (ui_shell::get_file_icon) answers for a path *)
ProviderKinds == {"good", "bad_depth", "truncated", "error"}

(* BITMAPINFO::default() with Vec::new(): cached after a provider error *)
EmptyDescriptor ==
    [some |-> TRUE,
     header |-> [biWidth |-> 0, biHeight |-> 0, biBitCount |-> 0, biCompression |-> 0],
     data |-> <<>>]

(* icon_cache: None *)
NoIcon == [EmptyDescriptor EXCEPT !.some = FALSE]

get_file_icon(kind) ==
    CASE kind = "good" ->
            [ok |-> TRUE,
             header |-> [biWidth |-> 2, biHeight |-> 2, biBitCount |-> 32,
                         biCompression |-> BI_RGB],
             data |-> Buffer(0, 16)]
      [] kind = "bad_depth" ->
            [ok |-> TRUE,
             header |-> [biWidth |-> 2, biHeight |-> 2, biBitCount |-> 16,
                         biCompression |-> BI_RGB],
             data |-> Buffer(0, 8)]
      [] kind = "truncated" ->
            [ok |-> TRUE,
             header |-> [biWidth |-> 2, biHeight |-> -2, biBitCount |-> 32,
                         biCompression |-> BI_RGB],
             data |-> Buffer(1, 3)]
      [] OTHER -> [ok |-> FALSE, header |-> EmptyDescriptor.header, data |-> <<>>]

(* IconInfo::new: the icon is not loaded yet.  provider_calls counts the   *)
(* calls of ui_shell::get_file_icon made for this IconInfo.                 *)
IconInfoNew(kind) == [path |-> kind, icon_cache |-> NoIcon, provider_calls |-> 0]

(* A faulty variant of get_or_load_icon: a failed load is not cached *)
get_or_load_icon_retrying(item) ==
    IF item.icon_cache.some THEN item.icon_cache
    ELSE LET got == get_file_icon(item.path)
         IN  IF got.ok THEN [some |-> TRUE, header |-> got.header, data |-> got.data]
             ELSE NoIcon

(* IconInfo::get_or_load_icon: the cache after the call *)
get_or_load_icon(item) ==
    IF item.icon_cache.some THEN item.icon_cache
    ELSE LET got == get_file_icon(item.path)
         IN  IF got.ok THEN [some |-> TRUE, header |-> got.header, data |-> got.data]
             ELSE EmptyDescriptor

(* MyGraphics::draw_group (graphics.rs): what it paints for one item *)
draw_group(icon_data) ==
    LET icon_width == AbsU32(icon_data.header.biWidth)
        icon_height == AbsU32(icon_data.header.biHeight)
    IN  IF icon_width = 0 \/ icon_height = 0
        THEN [placeholder |-> FALSE, icon |-> FALSE, label |-> FALSE, panic |-> FALSE]
        ELSE LET r == MyGraphics_draw_icon(icon_data.header, icon_data.data, FALSE)
             IN  [placeholder |-> r.outcome = "placeholder",
                  icon |-> r.outcome = "decoded",
                  label |-> r.outcome # "panic",
                  panic |-> r.outcome = "panic"]

FrameInit ==
    /\ groups = <<>>
    /\ frame = NoFrame
    /\ IconIdle /\ FinishIdle /\ ColorIdle /\ ParseIdle
    /\ ClampIdle /\ LayoutIdle /\ TextIdle /\ SurfaceIdle
    /\ BorderIdle /\ ManagerIdle

(* ChildWindow::add *)
Add(kind) ==
    /\ Len(groups) < MaxItems
    /\ groups' = Append(groups, IconInfoNew(kind))
    /\ UNCHANGED frame
    /\ UNCHANGED <<iconVars, finishVars, colorVars, parseVars, clamp, layout, text, surface, border_calls, manager>>

(* One call ChildWindow::draw makes on its MyGraphics *)
Call(op, index) == [op |-> op, index |-> index]

(* A faulty variant of ChildWindow::draw: the frame is presented before    *)
(* the items are drawn.                                                     *)
DrawPresentingFirst ==
    LET loaded == [i \in 1..Len(groups) |-> get_or_load_icon(groups[i])]
        painted == [i \in 1..Len(groups) |-> draw_group(loaded[i])]
        panics == {i \in 1..Len(groups) : painted[i].panic}
        stop == IF panics = {} THEN Len(groups) + 1 ELSE SetMin(panics)
    IN  /\ groups' = [i \in 1..Len(groups) |->
                         IF i <= stop
                         THEN [groups[i] EXCEPT
                                 !.icon_cache = loaded[i],
                                 !.provider_calls =
                                     IF groups[i].icon_cache.some THEN @ ELSE @ + 1]
                         ELSE groups[i]]
        /\ frame' = [drawn |-> TRUE,
                     items |-> [i \in 1..Len(groups) |->
                                   IF i <= stop THEN painted[i]
                                   ELSE [placeholder |-> FALSE, icon |-> FALSE,
                                         label |-> FALSE, panic |-> FALSE]],
                     finished |-> TRUE,
                     calls |-> <<Call("draw_start", 0), Call("draw_finish", 0)>>
                               \o [i \in 1..Min2(stop, Len(groups)) |->
                                      Call("draw_group", i - 1)]]
        /\ UNCHANGED <<iconVars, finishVars, colorVars, parseVars, clamp, layout, text, surface, border_calls, manager>>

(* ChildWindow::draw: draw_start, draw_group for every item in order (a    *)
(* panic ends the frame there), draw_finish.  frame.calls are the calls     *)
(* made on the MyGraphics, in the order they were made.                     *)
Draw ==
    \E loaded \in {[i \in 1..Len(groups) |-> get_or_load_icon(groups[i])]} :
    \E painted \in {[i \in 1..Len(groups) |-> draw_group(loaded[i])]} :
    \E panics \in {{i \in 1..Len(groups) : painted[i].panic}} :
    \E stop \in {IF panics = {} THEN Len(groups) + 1 ELSE SetMin(panics)} :
        /\ groups' = [i \in 1..Len(groups) |->
                         IF i <= stop
                         THEN [groups[i] EXCEPT
                                 !.icon_cache = loaded[i],
                                 !.provider_calls =
                                     IF groups[i].icon_cache.some THEN @ ELSE @ + 1]
                         ELSE groups[i]]
        /\ frame' = [drawn |-> TRUE,
                     items |-> [i \in 1..Len(groups) |->
                                   IF i <= stop THEN painted[i]
                                   ELSE [placeholder |-> FALSE, icon |-> FALSE,
                                         label |-> FALSE, panic |-> FALSE]],
                     finished |-> panics = {},
                     calls |-> <<Call("draw_start", 0)>>
                               \o [i \in 1..Min2(stop, Len(groups)) |->
                                      Call("draw_group", i - 1)]
                               \o (IF panics = {} THEN <<Call("draw_finish", 0)>>
                                   ELSE <<>>)]
        /\ UNCHANGED <<iconVars, finishVars, colorVars, parseVars, clamp, layout, text, surface, border_calls, manager>>

FrameNext ==
    \/ \E kind \in ProviderKinds : Add(kind)
    \/ Draw

SpecFrame == FrameInit /\ [][FrameNext]_vars

(* C2 as stated: after a frame, every item of the window, also one whose   *)
(* bitmap is malformed or is the empty descriptor cached after a provider   *)
(* error, has its icon or (when the bitmap cannot be decoded) a             *)
(* placeholder painted and its label drawn, and the frame reached Finish.   *)
C2_EveryItemPaintedAndLabelled ==
    (frame.drawn /\ Len(frame.items) = Len(groups)) =>
        /\ frame.finished
        /\ \A i \in 1..Len(groups) :
              /\ frame.items[i].label
              /\ frame.items[i].icon \/ frame.items[i].placeholder
              /\ groups[i].path # "good" => frame.items[i].placeholder


(* C24: ui_shell::get_file_icon is called at most once for each IconInfo,  *)
(* over any number of redraws: whatever the first get_or_load_icon got,     *)
(* also the empty descriptor after a failed load, is cached, and no later   *)
(* redraw changes the cached descriptor or bytes or calls the provider      *)
(* again.                                                                   *)
C24_ProviderCalledAtMostOnce ==
    [][\A i \in 1..Len(groups) :
          /\ groups'[i].provider_calls <= 1
          /\ groups[i].icon_cache.some =>
                /\ groups'[i].icon_cache = groups[i].icon_cache
                /\ groups'[i].provider_calls = groups[i].provider_calls
          /\ groups'[i].icon_cache.some <=> groups'[i].provider_calls = 1]_vars

(* C24 witness: a window holds an item whose load failed and one whose     *)
(* load succeeded; both were drawn, each with one provider call, and the    *)
(* failed one has the empty descriptor cached.                              *)
C24_Witness ==
    /\ frame.drawn /\ frame.finished
    /\ Len(groups) = 2
    /\ groups[1].path = "error"
    /\ groups[1].icon_cache = EmptyDescriptor
    /\ groups[1].provider_calls = 1
    /\ groups[2].path = "good"
    /\ groups[2].icon_cache.some
    /\ groups[2].provider_calls = 1

(* C19: the calls of a redraw of a window with N items (frame.items has    *)
(* one entry for each) are one draw_start, then draw_group for the item     *)
(* indices 0, 1, ... in increasing order, then one draw_finish: no          *)
(* item is drawn before the start or after the finish, and the frame is     *)
(* presented (draw_finish) only after all N items were drawn.  A redraw in  *)
(* which no draw_group panics makes all N + 2 calls; one that is cut short  *)
(* by a panic has made a prefix of them and has presented nothing.          *)
C19_StartItemsFinish ==
    frame.drawn =>
       LET N == Len(frame.items)
           expected == <<Call("draw_start", 0)>>
                       \o [i \in 1..N |-> Call("draw_group", i - 1)]
                       \o <<Call("draw_finish", 0)>>
           made == Len(frame.calls)
       IN  /\ made <= N + 2
           /\ frame.calls = SubSeq(expected, 1, made)
           /\ frame.finished <=> made = N + 2
           /\ (\A i \in 1..N : ~frame.items[i].panic) => made = N + 2

(* C19 witness: a window with three items was redrawn to the end. *)
C19_Witness ==
    /\ frame.drawn
    /\ Len(frame.items) = 3
    /\ frame.finished
    /\ frame.calls = <<Call("draw_start", 0), Call("draw_group", 0),
                       Call("draw_group", 1), Call("draw_group", 2),
                       Call("draw_finish", 0)>>

---------------------------------------------------------------------------
(* The pixmap and the presentation surface: MyGraphics::draw_start and      *)
(* MyGraphics::draw_finish (graphics.rs).  The pixmap is a row of           *)
(* PixmapLen pixels; pixel 1 lies under the border stroke, the others are   *)
(* interior pixels that only the background fill touches.                   *)

PixmapLen == 3

ChannelLevels == {0, 128, 255}
PaintColors == [r : ChannelLevels, g : ChannelLevels, b : ChannelLevels, a : ChannelLevels]

(* Default border colour of MyGraphics::new: #000000FF *)
DefaultBorder == [r |-> 0, g |-> 0, b |-> 0, a |-> 255]

(* The premultiplied bytes tiny-skia stores for a paint colour drawn over   *)
(* a cleared pixmap: each channel scaled by alpha, rounded to nearest; for  *)
(* alpha 255 these are the colour's own bytes.                              *)
PaintPixel(c) ==
    [r |-> (c.r * c.a * 2 + 255) \div 510,
     g |-> (c.g * c.a * 2 + 255) \div 510,
     b |-> (c.b * c.a * 2 + 255) \div 510,
     a |-> c.a]

(* A surface word (u32) is written as its four bytes, most significant    *)
(* first: <<bits 31-24, bits 23-16, bits 15-8, bits 7-0>>.                  *)

(* A faulty packing: red and blue exchanged (0xAABBGGRR). *)
PackAbgr(r, g, b, a) == <<a, b, g, r>>

(* ((a as u32) << 24) | ((r as u32) << 16) | ((g as u32) << 8) | (b as u32) *)
PackArgb(r, g, b, a) == <<a, r, g, b>>

(* The fields of a 0xAARRGGBB word *)
WordA(w) == w[1]
WordR(w) == w[2]
WordG(w) == w[3]
WordB(w) == w[4]

FinishInit ==
    /\ paint_color = NoColor
    /\ pixmap = [i \in 1..PixmapLen |-> Transparent]
    /\ buffer = [i \in 1..PixmapLen |-> <<0, 0, 0, 0>>]
    /\ presented = FALSE
    /\ IconIdle /\ FrameIdle /\ ColorIdle /\ ParseIdle
    /\ ClampIdle /\ LayoutIdle /\ TextIdle /\ SurfaceIdle
    /\ BorderIdle /\ ManagerIdle

(* tiny-skia SourceOver of a premultiplied source pixel over a destination *)
(* pixel: src + dst * (255 - src.a) / 255 per channel, rounded to nearest.  *)
(* Over a transparent destination this is the source, under an opaque       *)
(* source also.                                                             *)
SourceOver(src, dst) ==
    [r |-> src.r + (dst.r * (255 - src.a) * 2 + 255) \div 510,
     g |-> src.g + (dst.g * (255 - src.a) * 2 + 255) \div 510,
     b |-> src.b + (dst.b * (255 - src.a) * 2 + 255) \div 510,
     a |-> src.a + (dst.a * (255 - src.a) * 2 + 255) \div 510]

(* A faulty variant of draw_start: the pixmap is not cleared first *)
draw_start_keeping(pm, background, border) ==
    LET filled == [i \in 1..PixmapLen |-> SourceOver(PaintPixel(background), pm[i])]
    IN  [i \in 1..PixmapLen |->
            IF i = 1 THEN SourceOver(PaintPixel(border), filled[i]) ELSE filled[i]]

(* MyGraphics::draw_start on the pixmap pm: pixmap.fill(TRANSPARENT), then  *)
(* fill_rect of the whole rectangle with the background paint, then         *)
(* stroke_path of the border rectangle with the border paint.               *)
draw_start(pm, background, border) ==
    LET cleared == [i \in 1..PixmapLen |-> Transparent]
        filled == [i \in 1..PixmapLen |->
                      SourceOver(PaintPixel(background), cleared[i])]
    IN  [i \in 1..PixmapLen |->
            IF i = 1 THEN SourceOver(PaintPixel(border), filled[i]) ELSE filled[i]]

(* draw_start with background colour c: clear to transparent, fill the     *)
(* whole rectangle with the background paint, stroke the opaque border.     *)
DrawStart(c) ==
    /\ paint_color' = c
    /\ pixmap' = draw_start(pixmap, c, DefaultBorder)
    /\ presented' = FALSE
    /\ UNCHANGED buffer
    /\ UNCHANGED <<iconVars, frameVars, colorVars, parseVars, clamp, layout, text, surface, border_calls, manager>>

(* draw_finish: every pixmap pixel is packed into a surface word as it is  *)
DrawFinish ==
    /\ buffer' = [i \in 1..PixmapLen |->
                     PackArgb(pixmap[i].r, pixmap[i].g, pixmap[i].b, pixmap[i].a)]
    /\ presented' = TRUE
    /\ UNCHANGED <<paint_color, pixmap>>
    /\ UNCHANGED <<iconVars, frameVars, colorVars, parseVars, clamp, layout, text, surface, border_calls, manager>>

FinishNext ==
    \/ \E c \in PaintColors : DrawStart(c)
    \/ DrawFinish

SpecFinish == FinishInit /\ [][FinishNext]_vars

(* C32: draw_start clears the buffer to transparent, then fills the       *)
(* background, then strokes the border, in that order: after it every       *)
(* pixel is the one the current background and border colours and the       *)
(* window size give (the border colour over the background under the        *)
(* stroke, the background elsewhere), whatever the previous frame left in   *)
(* the pixmap.                                                              *)
C32_DrawStartLeavesNothing ==
    [][(\E c \in PaintColors : DrawStart(c)) =>
          \A i \in 1..PixmapLen :
              pixmap'[i] =
                  IF i = 1
                  THEN [r |-> DefaultBorder.r, g |-> DefaultBorder.g,
                        b |-> DefaultBorder.b, a |-> 255]
                  ELSE [r |-> (paint_color'.r * paint_color'.a * 2 + 255) \div 510,
                        g |-> (paint_color'.g * paint_color'.a * 2 + 255) \div 510,
                        b |-> (paint_color'.b * paint_color'.a * 2 + 255) \div 510,
                        a |-> paint_color'.a]
      ]_vars

(* C32 witness: a frame with an opaque red background was presented, and   *)
(* draw_start of the next frame, with a half transparent blue background,   *)
(* left only that background in the interior pixels.                        *)
C32_Witness ==
    /\ ~presented
    /\ buffer[PixmapLen] = <<255, 255, 0, 0>>
    /\ paint_color = [r |-> 0, g |-> 0, b |-> 255, a |-> 128]
    /\ pixmap[PixmapLen] = [r |-> 0, g |-> 0, b |-> 128, a |-> 128]
    /\ pixmap[1] = [r |-> 0, g |-> 0, b |-> 0, a |-> 255]

(* Straight-alpha value of a premultiplied channel, as C5 states it *)
Unpremultiplied(c, a) == IF a = 0 THEN 0 ELSE Min2(255, (c * 255) \div a)

(* C5 as stated: after draw_finish every surface word is 0xAARRGGBB of the *)
(* pixel converted from premultiplied to straight alpha: each colour        *)
(* channel min(255, c*255/a) for a > 0, and 0 for a = 0.                    *)
C5_FinishConvertsToStraightAlpha ==
    presented =>
        \A i \in 1..PixmapLen :
            buffer[i] = PackArgb(Unpremultiplied(pixmap[i].r, pixmap[i].a),
                                 Unpremultiplied(pixmap[i].g, pixmap[i].a),
                                 Unpremultiplied(pixmap[i].b, pixmap[i].a),
                                 pixmap[i].a)

(* C6: after the buffer was filled with an opaque colour C and draw_finish *)
(* ran, the R, G and B fields of the surface word of every pixel that only  *)
(* the fill touched equal those of C.                                       *)
C6_OpaqueFillRoundTrips ==
    (presented /\ paint_color.a = 255) =>
        \A i \in 2..PixmapLen :
            /\ WordR(buffer[i]) = paint_color.r
            /\ WordG(buffer[i]) = paint_color.g
            /\ WordB(buffer[i]) = paint_color.b

(* C6 witness: an opaque colour with three different channels was filled   *)
(* and presented.                                                           *)
C6_Witness ==
    /\ presented
    /\ paint_color.a = 255
    /\ paint_color.r = 255 /\ paint_color.g = 128 /\ paint_color.b = 0
    /\ WordR(buffer[2]) = 255

---------------------------------------------------------------------------
(* Colour strings: parse_color (graphics/colors.rs, graphics/graphics.rs)   *)
(* and color_to_hex_string (child_window.rs).  A string is a sequence of    *)
(* characters; a character is a one-character string, "é" standing for a    *)
(* character of two UTF-8 bytes.                                            *)

UpperHex == <<"0", "1", "2", "3", "4", "5", "6", "7", "8", "9",
              "A", "B", "C", "D", "E", "F">>
LowerHex == <<"0", "1", "2", "3", "4", "5", "6", "7", "8", "9",
              "a", "b", "c", "d", "e", "f">>

(* char::to_digit(16): the value of a hex digit, -1 for any other char *)
ToDigit16(ch) ==
    IF \E i \in 1..16 : UpperHex[i] = ch
    THEN (CHOOSE i \in 1..16 : UpperHex[i] = ch) - 1
    ELSE IF \E i \in 1..16 : LowerHex[i] = ch
    THEN (CHOOSE i \in 1..16 : LowerHex[i] = ch) - 1
    ELSE 0 - 1

(* length of a character in UTF-8 bytes *)
Utf8Len(ch) == IF ch = "é" THEN 2 ELSE 1

RECURSIVE ByteLen(_)
(* str::len(): the length in bytes *)
ByteLen(str) == IF str = <<>> THEN 0 ELSE Utf8Len(Head(str)) + ByteLen(Tail(str))

(* the byte offset at which character k + 1 starts *)
ByteOffset(str, k) == ByteLen(SubSeq(str, 1, k))

(* str::get(from..to): None unless both ends are character boundaries *)
StrGet(str, from, to) ==
    IF /\ from <= to
       /\ \E i \in 0..Len(str) : ByteOffset(str, i) = from
       /\ \E j \in 0..Len(str) : ByteOffset(str, j) = to
    THEN LET i == CHOOSE i \in 0..Len(str) : ByteOffset(str, i) = from
             j == CHOOSE j \in 0..Len(str) : ByteOffset(str, j) = to
         IN  [some |-> TRUE, str |-> SubSeq(str, i + 1, j)]
    ELSE [some |-> FALSE, str |-> <<>>]

(* str::strip_prefix('#'): removes one leading '#', None when there is none *)
StripPrefixHash(str) ==
    IF str # <<>> /\ Head(str) = "#"
    THEN [some |-> TRUE, str |-> Tail(str)]
    ELSE [some |-> FALSE, str |-> <<>>]

RECURSIVE DigitsValue(_, _)
(* accumulation of the digits in from_str_radix; -1 for an invalid digit   *)
(* or a value that does not fit u8                                          *)
DigitsValue(digits, acc) ==
    IF digits = <<>> THEN acc
    ELSE IF ToDigit16(Head(digits)) < 0 THEN 0 - 1
    ELSE IF acc * 16 + ToDigit16(Head(digits)) > 255 THEN 0 - 1
    ELSE DigitsValue(Tail(digits), acc * 16 + ToDigit16(Head(digits)))

(* u8::from_str_radix(src, 16): an empty string and a lone sign are         *)
(* errors, one leading '+' is skipped, '-' is no digit of an unsigned type. *)
FromStrRadix16(src) ==
    IF src = <<>> THEN 0 - 1
    ELSE IF Len(src) = 1 /\ (src[1] = "+" \/ src[1] = "-") THEN 0 - 1
    ELSE IF src[1] = "+" THEN DigitsValue(Tail(src), 0)
    ELSE DigitsValue(src, 0)

RECURSIVE QuotientBits(_, _, _)
(* binary long division by 255 up to a 24-bit quotient: m = floor(n * 2^e  *)
(* / 255), r the remainder                                                  *)
QuotientBits(m, r, e) ==
    IF m >= 8388608 THEN [m |-> m, r |-> r, e |-> e]
    ELSE QuotientBits(2 * m + ((2 * r) \div 255), (2 * r) % 255, e + 1)

(* (byte as f32) / 255.0, rounded to nearest *)
F32FromByte(byte) ==
    IF byte = 0 THEN F32Zero
    ELSE LET q == QuotientBits(byte \div 255, byte % 255, 0)
             up == IF 2 * q.r > 255 THEN 1 ELSE 0
         IN  IF q.m + up = 16777216
             THEN [m |-> 8388608, e |-> q.e - 1]
             ELSE [m |-> q.m + up, e |-> q.e]

(* (x * 255.0) as u8: the f32 product rounded to nearest-even, then         *)
(* truncated and saturated.  The 32-bit product m * 255 is kept as          *)
(* hi * 4096 + lo.                                                          *)
F32ToByte(x) ==
    IF x.m = 0 THEN 0
    ELSE LET low == (x.m % 4096) * 255
             lo == low % 4096
             hi == (x.m \div 4096) * 255 + (low \div 4096)
             unit == IF hi >= 524288 THEN 256 ELSE 128
             q == lo \div unit
             rem == lo % unit
             up == IF (2 * rem > unit) \/ (2 * rem = unit /\ q % 2 = 1) THEN 1 ELSE 0
             rounded == (q + up) * unit
             hi2 == hi + (rounded \div 4096)
         IN  Min2(255, hi2 \div (2 ^ (x.e - 12)))

(* tiny_skia Color::from_rgba8 *)
Color_from_rgba8(r, g, b, a) ==
    [r |-> F32FromByte(r), g |-> F32FromByte(g), b |-> F32FromByte(b), a |-> F32FromByte(a)]

ColorSome(color) == [ran |-> TRUE, some |-> TRUE, color |-> color]

(* The common part of the parse_color implementations, after the '#' was   *)
(* dealt with: match on the byte length, slice, convert.                    *)
ParseHexBody(str) ==
    LET n == ByteLen(str)
        r_str == StrGet(str, 0, 2)
        g_str == StrGet(str, 2, 4)
        b_str == StrGet(str, 4, 6)
        a_str == IF n = 6 THEN [some |-> TRUE, str |-> <<"F", "F">>]
                 ELSE StrGet(str, 6, 8)
    IN  IF n # 6 /\ n # 8 THEN ColorNone
        ELSE IF ~(r_str.some /\ g_str.some /\ b_str.some /\ a_str.some) THEN ColorNone
        ELSE LET r == FromStrRadix16(r_str.str)
                 g == FromStrRadix16(g_str.str)
                 b == FromStrRadix16(b_str.str)
                 a == FromStrRadix16(a_str.str)
             IN  IF r < 0 \/ g < 0 \/ b < 0 \/ a < 0 THEN ColorNone
                 ELSE ColorSome(Color_from_rgba8(r, g, b, a))

(* parse_color of graphics/colors.rs (and of _temp.rs):                    *)
(* color_str.strip_prefix('#').unwrap_or(color_str)                         *)
parse_color(str) ==
    ParseHexBody(IF StripPrefixHash(str).some THEN StripPrefixHash(str).str ELSE str)

(* parse_color of graphics/graphics.rs: color_str.strip_prefix('#')?       *)
graphics_parse_color(str) ==
    IF StripPrefixHash(str).some THEN ParseHexBody(StripPrefixHash(str).str)
    ELSE ColorNone

(* {:X}: upper-case hex without padding *)
FormatUpperHex(byte) ==
    IF byte < 16 THEN <<UpperHex[byte + 1]>>
    ELSE <<UpperHex[(byte \div 16) + 1], UpperHex[(byte % 16) + 1]>>

(* {:02X}: upper-case hex, zero-padded to two digits *)
FormatUpperHex02(byte) ==
    IF Len(FormatUpperHex(byte)) < 2 THEN <<"0">> \o FormatUpperHex(byte)
    ELSE FormatUpperHex(byte)

(* A faulty formatter: "#{:X}{:X}{:X}{:X}", the padding forgotten *)
color_to_hex_string_unpadded(color) ==
    <<"#">> \o FormatUpperHex(F32ToByte(color.r)) \o FormatUpperHex(F32ToByte(color.g))
            \o FormatUpperHex(F32ToByte(color.b)) \o FormatUpperHex(F32ToByte(color.a))

(* color_to_hex_string of child_window.rs: "#{:02X}{:02X}{:02X}{:02X}" of  *)
(* (channel * 255.0) as u8                                                  *)
color_to_hex_string(color) ==
    <<"#">> \o FormatUpperHex02(F32ToByte(color.r)) \o FormatUpperHex02(F32ToByte(color.g))
            \o FormatUpperHex02(F32ToByte(color.b)) \o FormatUpperHex02(F32ToByte(color.a))

(* Inputs of parse_color *)

MaxHashes == 2

HexPair(n) == <<UpperHex[(n \div 16) + 1], UpperHex[(n % 16) + 1]>>
HexPairLower(n) == <<LowerHex[(n \div 16) + 1], LowerHex[(n % 16) + 1]>>

(* an 8-digit colour per byte value n, every byte value in every channel,  *)
(* in upper case for even n and lower case for odd n                        *)
ByteString(n) ==
    IF n % 2 = 0
    THEN HexPair(n) \o HexPair((n * 7 + 3) % 256) \o HexPair(255 - n) \o HexPair((n + 128) % 256)
    ELSE HexPairLower(n) \o HexPairLower((n * 7 + 3) % 256) \o HexPairLower(255 - n)
            \o HexPairLower((n + 128) % 256)

ValidBodies ==
    {ByteString(n) : n \in 0..255} \cup {SubSeq(ByteString(n), 1, 6) : n \in 0..255}

(* bodies of every length from 0 to 8, and the same with one character     *)
(* replaced by a character that is no hex digit                             *)
OddChars == {"+", "-", "G", "g", " ", "#", "x", "é"}
Stems == {SubSeq(<<"0", "1", "0", "2", "F", "e", "8", "0">>, 1, k) : k \in 0..8}
ReplaceAt(str, p, ch) == [i \in 1..Len(str) |-> IF i = p THEN ch ELSE str[i]]
OtherBodies ==
    Stems \cup {ReplaceAt(stem, p, ch) : stem \in Stems, p \in 1..8, ch \in OddChars}

RECURSIVE Hashes(_)
Hashes(k) == IF k = 0 THEN <<>> ELSE <<"#">> \o Hashes(k - 1)

ColorStrings ==
    {Hashes(k) \o body : k \in 0..MaxHashes, body \in ValidBodies \cup OtherBodies}

ParseInit ==
    /\ color_str \in ColorStrings
    /\ parsed = [colors |-> NotRun, graphics |-> NotRun]
    /\ hex_string = <<>>
    /\ reparsed = NotRun
    /\ IconIdle /\ FrameIdle /\ FinishIdle /\ ColorIdle
    /\ ClampIdle /\ LayoutIdle /\ TextIdle /\ SurfaceIdle
    /\ BorderIdle /\ ManagerIdle

(* graphics::parse_color(color_str), the implementation of colors.rs *)
ParseColor ==
    /\ ~parsed.colors.ran
    /\ parsed' = [parsed EXCEPT !.colors = parse_color(color_str)]
    /\ UNCHANGED <<color_str, hex_string, reparsed>>
    /\ UNCHANGED <<iconVars, frameVars, finishVars, colorVars, clamp, layout, text, surface, border_calls, manager>>

(* graphics::graphics::parse_color(color_str), the implementation of       *)
(* graphics.rs                                                              *)
GraphicsParseColor ==
    /\ ~parsed.graphics.ran
    /\ parsed' = [parsed EXCEPT !.graphics = graphics_parse_color(color_str)]
    /\ UNCHANGED <<color_str, hex_string, reparsed>>
    /\ UNCHANGED <<iconVars, frameVars, finishVars, colorVars, clamp, layout, text, surface, border_calls, manager>>

(* color_to_hex_string of the parsed colour (saving the settings) *)
ColorToHexString ==
    /\ parsed.colors.some
    /\ hex_string = <<>>
    /\ hex_string' = color_to_hex_string(parsed.colors.color)
    /\ UNCHANGED <<color_str, parsed, reparsed>>
    /\ UNCHANGED <<iconVars, frameVars, finishVars, colorVars, clamp, layout, text, surface, border_calls, manager>>

(* parse_color of the formatted string (loading the settings) *)
Reparse ==
    /\ hex_string # <<>>
    /\ ~reparsed.ran
    /\ reparsed' = parse_color(hex_string)
    /\ UNCHANGED <<color_str, parsed, hex_string>>
    /\ UNCHANGED <<iconVars, frameVars, finishVars, colorVars, clamp, layout, text, surface, border_calls, manager>>

ParseNext ==
    \/ ParseColor
    \/ GraphicsParseColor
    \/ ColorToHexString
    \/ Reparse

SpecParse == ParseInit /\ [][ParseNext]_vars

(* Properties of the colour string functions *)

IsHexDigit(ch) ==
    ch \in {UpperHex[i] : i \in 1..16} \cup {LowerHex[i] : i \in 1..16}

(* the input with at most one leading '#' removed *)
Unhashed(str) == IF str # <<>> /\ str[1] = "#" THEN Tail(str) ELSE str

(* exactly 6 or exactly 8 hexadecimal digits after at most one '#' *)
ValidHexForm(str) ==
    /\ Len(Unhashed(str)) \in {6, 8}
    /\ \A i \in 1..Len(Unhashed(str)) : IsHexDigit(Unhashed(str)[i])

PairValue(str, i) == 16 * ToDigit16(str[i]) + ToDigit16(str[i + 1])

(* the colour a valid colour string denotes *)
DenotedColor(str) ==
    LET d == Unhashed(str)
    IN  Color_from_rgba8(PairValue(d, 1), PairValue(d, 3), PairValue(d, 5),
                         IF Len(d) = 8 THEN PairValue(d, 7) ELSE 255)

(* C8 as stated: parse_color (colors.rs) returns Some exactly when the     *)
(* input, after removing at most one leading '#', is exactly 6 or 8 hex     *)
(* digits, with alpha 255 for 6 digits and the explicit alpha for 8; any    *)
(* other length or any other character, signs and non-ASCII included,       *)
(* gives None.                                                              *)
C8_SomeIffSixOrEightHexDigits ==
    parsed.colors.ran =>
        /\ parsed.colors.some <=> ValidHexForm(color_str)
        /\ parsed.colors.some => parsed.colors.color = DenotedColor(color_str)

(* C9 as stated: every parse_color implementation accepts a valid 6- or    *)
(* 8-digit colour with and without the leading '#', and gives the colour    *)
(* the digits denote in both forms.                                         *)
C9_EveryParserAcceptsBothForms ==
    ValidHexForm(color_str) =>
        /\ parsed.colors.ran => parsed.colors = ColorSome(DenotedColor(color_str))
        /\ parsed.graphics.ran => parsed.graphics = ColorSome(DenotedColor(color_str))

F32OfByte == [n \in 0..255 |-> F32FromByte(n)]

(* C10: the formatted string of a parsed colour is '#' followed by the     *)
(* upper-case two-digit hex of exactly the bytes the colour was made of,    *)
(* and parsing it again gives the parsed colour.                            *)
C10_FormatIsUpperHexAndRoundTrips ==
    /\ hex_string # <<>> =>
          /\ Len(hex_string) = 9
          /\ hex_string[1] = "#"
          /\ \E r \in 0..255 : /\ F32OfByte[r] = parsed.colors.color.r
                                /\ SubSeq(hex_string, 2, 3) = HexPair(r)
          /\ \E g \in 0..255 : /\ F32OfByte[g] = parsed.colors.color.g
                                /\ SubSeq(hex_string, 4, 5) = HexPair(g)
          /\ \E b \in 0..255 : /\ F32OfByte[b] = parsed.colors.color.b
                                /\ SubSeq(hex_string, 6, 7) = HexPair(b)
          /\ \E a \in 0..255 : /\ F32OfByte[a] = parsed.colors.color.a
                                /\ SubSeq(hex_string, 8, 9) = HexPair(a)
    /\ reparsed.ran => reparsed = parsed.colors

(* C10 witness: a lower-case colour string without '#' whose alpha byte    *)
(* needs a leading zero was parsed, formatted and parsed again.             *)
C10_Witness ==
    /\ color_str = ByteString(137)
    /\ hex_string = <<"#", "8", "9", "C", "2", "7", "6", "0", "9">>
    /\ reparsed.ran
    /\ reparsed.some

---------------------------------------------------------------------------
(* The colour state of MyGraphics: MyGraphics::new, update_background_color *)
(* and update_border_color (graphics.rs), ChildWindow::set_background_color *)
(* and ChildWindow::adjust_alpha (child_window.rs).                         *)
(* An alpha is kept as a whole number of 1/25500: the byte a8 is a8 * 100,  *)
(* 0.05 is 1275, 0.02 is 510 and 1.0 is 25500.                              *)

MIN_ALPHA == 1275
ALPHA_ADJUST_STEP == 510
AlphaOne == 25500

(* the stored form of a parsed Color *)
Stored(color) ==
    [r |-> F32ToByte(color.r), g |-> F32ToByte(color.g), b |-> F32ToByte(color.b),
     a |-> F32ToByte(color.a) * 100]

(* Defaults of MyGraphics::new: #FFFFFF99 and #000000FF *)
DefaultBackground == [r |-> 255, g |-> 255, b |-> 255, a |-> 15300]
DefaultBorderColor == [r |-> 0, g |-> 0, b |-> 0, a |-> AlphaOne]

(* A faulty variant of clamp_alpha: it lifts a low alpha by the floor       *)
(* instead of setting it to the floor.                                      *)
clamp_alpha_lifted(color) ==
    IF color.a < MIN_ALPHA THEN [color EXCEPT !.a = color.a + MIN_ALPHA] ELSE color

(* colors::clamp_alpha, and the private copies MyGraphics::clamp_alpha of   *)
(* graphics.rs and _temp.rs, which read the same.  Color::from_rgba cannot  *)
(* fail here (every component is in 0.0..=1.0), so unwrap_or never falls    *)
(* back.                                                                    *)
clamp_alpha(color) ==
    IF color.a < MIN_ALPHA THEN [color EXCEPT !.a = MIN_ALPHA] ELSE color

(* calculate_border_color: a hue-shifted complement of the background,     *)
(* always opaque; the colour arithmetic is not followed, any of these       *)
(* RGB values may come out.                                                 *)
BorderRgbs == {<<0, 0, 0>>, <<204, 102, 51>>}
BorderColors == {[r |-> c[1], g |-> c[2], b |-> c[3], a |-> AlphaOne] : c \in BorderRgbs}

(* Colour strings handed to the constructor and to set_background_color *)
ColorArgs ==
    { <<"#", "F", "F", "F", "F", "F", "F", "9", "9">>,
      <<"#", "F", "F", "F", "F", "F", "F", "0", "0">>,
      <<"#", "2", "0", "4", "0", "6", "0", "0", "C">>,
      <<"#", "2", "0", "4", "0", "6", "0", "0", "D">>,
      <<"#", "0", "0", "0", "0", "F", "F">>,
      <<"0", "0", "F", "F", "0", "0", "8", "0">>,
      <<"#", "1", "2", "3">>,
      <<"#", "G", "G", "G", "G", "G", "G">> }

Deltas == {0 - 1, 1}

(* MyGraphics::new(window, bg_color_str, border_color_str): the parsed     *)
(* colours, or the defaults, go into the paints as they are.                *)
ColorInit ==
    /\ \E bg_color_str \in ColorArgs, border_color_str \in ColorArgs :
          /\ background_color =
                IF graphics_parse_color(bg_color_str).some
                THEN Stored(graphics_parse_color(bg_color_str).color)
                ELSE DefaultBackground
          /\ border_color =
                IF graphics_parse_color(border_color_str).some
                THEN Stored(graphics_parse_color(border_color_str).color)
                ELSE DefaultBorderColor
    /\ color_log = NoLog
    /\ IconIdle /\ FrameIdle /\ FinishIdle /\ ParseIdle
    /\ ClampIdle /\ LayoutIdle /\ TextIdle /\ SurfaceIdle
    /\ BorderIdle /\ ManagerIdle

(* MyGraphics::update_background_color *)
update_background_color(color) == clamp_alpha(color)

(* MyGraphics::update_border_color *)
update_border_color(color) == clamp_alpha(color)

(* A faulty variant of set_background_color: a rejected string resets the  *)
(* colours to the defaults.                                                 *)
SetBackgroundColorOrDefault(arg) ==
    /\ IF parse_color(arg).some
       THEN /\ background_color' = update_background_color(Stored(parse_color(arg).color))
            /\ \E border \in BorderColors : border_color' = update_border_color(border)
            /\ color_log' = [level |-> "debug", color_str |-> arg]
       ELSE /\ background_color' = DefaultBackground
            /\ border_color' = DefaultBorderColor
            /\ color_log' = [level |-> "warn", color_str |-> arg]
    /\ UNCHANGED <<iconVars, frameVars, finishVars, parseVars, clamp, layout, text, surface, border_calls, manager>>

(* ChildWindow::set_background_color(color_str); handle_paste calls it     *)
(* with the trimmed clipboard text.                                         *)
SetBackgroundColor(arg) ==
    /\ IF parse_color(arg).some
       THEN /\ background_color' = update_background_color(Stored(parse_color(arg).color))
            /\ \E border \in BorderColors : border_color' = update_border_color(border)
            /\ color_log' = [level |-> "debug", color_str |-> arg]
       ELSE /\ UNCHANGED <<background_color, border_color>>
            /\ color_log' = [level |-> "warn", color_str |-> arg]
    /\ UNCHANGED <<iconVars, frameVars, finishVars, parseVars, clamp, layout, text, surface, border_calls, manager>>

(* ChildWindow::adjust_alpha(delta) *)
AdjustAlpha(delta) ==
    LET current_alpha == background_color.a
        new_alpha == Max2(0, Min2(AlphaOne, current_alpha + delta * ALPHA_ADJUST_STEP))
    IN  /\ IF new_alpha # current_alpha
           THEN /\ background_color' =
                      update_background_color([background_color EXCEPT !.a = new_alpha])
                /\ \E border \in BorderColors : border_color' = update_border_color(border)
                /\ color_log' = [level |-> "debug", color_str |-> <<>>]
           ELSE UNCHANGED <<background_color, border_color, color_log>>
        /\ UNCHANGED <<iconVars, frameVars, finishVars, parseVars, clamp, layout, text, surface, border_calls, manager>>

ColorNext ==
    \/ \E arg \in ColorArgs : SetBackgroundColor(arg)
    \/ \E delta \in Deltas : AdjustAlpha(delta)

SpecColor == ColorInit /\ [][ColorNext]_vars

(* C7 as stated: in every state reachable from MyGraphics::new with any    *)
(* colour strings through set_background_color, adjust_alpha and the        *)
(* update functions, the stored background and border alpha are at least    *)
(* MIN_ALPHA.                                                               *)
C7_StoredAlphaAtLeastMin ==
    /\ background_color.a >= MIN_ALPHA
    /\ border_color.a >= MIN_ALPHA

---------------------------------------------------------------------------
(* clamp_alpha as a function: a colour is drawn, clamped, and the result   *)
(* clamped again.                                                           *)

ClampColors ==
    { [r |-> c[1], g |-> c[2], b |-> c[3], a |-> a] :
        c \in {<<10, 20, 30>>, <<255, 255, 255>>},
        a \in {a8 * 100 : a8 \in 0..255} \cup {MIN_ALPHA - 1, MIN_ALPHA, MIN_ALPHA + 1} }

ClampInit ==
    /\ \E color \in ClampColors :
          clamp = [applied |-> 0, color |-> color, once |-> NoColor, twice |-> NoColor]
    /\ IconIdle /\ FrameIdle /\ FinishIdle /\ ColorIdle
    /\ ParseIdle /\ LayoutIdle /\ TextIdle /\ SurfaceIdle
    /\ BorderIdle /\ ManagerIdle

ClampAlpha ==
    /\ clamp.applied < 2
    /\ clamp' = IF clamp.applied = 0
                THEN [clamp EXCEPT !.applied = 1, !.once = clamp_alpha(clamp.color)]
                ELSE [clamp EXCEPT !.applied = 2, !.twice = clamp_alpha(clamp.once)]
    /\ UNCHANGED <<iconVars, frameVars, finishVars, colorVars, parseVars, layout, text, surface, border_calls, manager>>

SpecClamp == ClampInit /\ [][ClampAlpha]_vars

(* C11: clamp_alpha applied twice gives what it gives applied once; a      *)
(* colour with alpha below MIN_ALPHA comes out with alpha MIN_ALPHA and     *)
(* the same RGB; a colour with alpha at or above MIN_ALPHA comes out as it  *)
(* went in.                                                                 *)
C11_ClampAlphaIdempotentFloor ==
    /\ clamp.applied >= 1 =>
          /\ clamp.color.a < MIN_ALPHA =>
                clamp.once = [clamp.color EXCEPT !.a = MIN_ALPHA]
          /\ clamp.color.a >= MIN_ALPHA => clamp.once = clamp.color
    /\ clamp.applied = 2 => clamp.twice = clamp.once

(* C11 witness: from_rgba8(10, 20, 30, 5) was clamped twice. *)
C11_Witness ==
    /\ clamp.applied = 2
    /\ clamp.color = [r |-> 10, g |-> 20, b |-> 30, a |-> 500]
    /\ clamp.twice = [r |-> 10, g |-> 20, b |-> 30, a |-> MIN_ALPHA]

---------------------------------------------------------------------------
(* The grid layout: calculate_internal_layout and get_item_rect_f32 of     *)
(* graphics/layout.rs, and the copies MyGraphics keeps in graphics.rs and   *)
(* _temp.rs.  A length is a whole number of quarter pixels, the scale       *)
(* factor a whole number of quarters, so that the scale factors 0.25, 1.0,  *)
(* 1.25, 1.5 and 2.0 and every length below are exact, as they are in f32   *)
(* at these sizes.  A window width or height is in whole pixels.            *)

MaxIndex == 4

BASE_PADDING == 10
BASE_LAYOUT_ICON_SIZE == 48
BASE_PADDING_UNDER_ICON == 2
BASE_TEXT_HEIGHT == 16
BASE_TEXT_FONT_SIZE == 16
BASE_ADJUST_SELECT_RECT == 3

PADDING == 10
LAYOUT_ICON_SIZE == 48
PADDING_UNDER_ICON == 12
TEXT_HEIGHT == 16
TEXT_FONT_SIZE == 16
ADJUST_SELECT_RECT == 3

(* a whole number of pixels, in quarters *)
Px(n) == n * 4

(* (BASE as f64 * self.scale_factor) as f32 *)
Scaled(base, scale_factor) == base * scale_factor

(* A faulty variant of calculate_internal_layout: the column count is not  *)
(* raised to 1 (the cast to usize takes a negative quotient to 0).          *)
calculate_internal_layout_unclamped(window_width, layout_icon_size, padding, padding_under_icon, text_height) ==
    LET max_text_width == layout_icon_size * 2
        item_width == max_text_width + padding
        item_height == layout_icon_size + padding_under_icon + text_height + padding
        items_per_row ==
            IF item_width > 0
            THEN Max2((Px(window_width) - padding) \div item_width, 0)
            ELSE 1
    IN  [items_per_row |-> items_per_row, max_text_width |-> max_text_width,
         item_width |-> item_width, item_height |-> item_height]

(* A faulty variant of calculate_internal_layout: the padding is not taken *)
(* off the window width before the division.                                *)
calculate_internal_layout_unpadded(window_width, layout_icon_size, padding, padding_under_icon, text_height) ==
    LET max_text_width == layout_icon_size * 2
        item_width == max_text_width + padding
        item_height == layout_icon_size + padding_under_icon + text_height + padding
        items_per_row ==
            IF item_width > 0
            THEN Max2(Px(window_width) \div item_width, 1)
            ELSE 1
    IN  [items_per_row |-> items_per_row, max_text_width |-> max_text_width,
         item_width |-> item_width, item_height |-> item_height]

(* layout::calculate_internal_layout, and MyGraphics::                      *)
(* calculate_internal_layout of _temp.rs, which reads the same over the     *)
(* fields of self.  floor() of the quotient is \div, the divisor being      *)
(* positive.                                                                *)
calculate_internal_layout(window_width, layout_icon_size, padding, padding_under_icon, text_height) ==
    LET max_text_width == layout_icon_size * 2
        item_width == max_text_width + padding
        item_height == layout_icon_size + padding_under_icon + text_height + padding
        items_per_row ==
            IF item_width > 0
            THEN Max2((Px(window_width) - padding) \div item_width, 1)
            ELSE 1
    IN  [items_per_row |-> items_per_row, max_text_width |-> max_text_width,
         item_width |-> item_width, item_height |-> item_height]

(* calculate_layout of graphics.rs: the same computation over the constants *)
calculate_layout(window_width) ==
    calculate_internal_layout(window_width, Px(LAYOUT_ICON_SIZE), Px(PADDING),
                              Px(PADDING_UNDER_ICON), Px(TEXT_HEIGHT))

(* tiny_skia Rect::from_xywh: None for a negative width or height (the      *)
(* rectangles computed here never have a zero side).                        *)
Rect_from_xywh(x, y, w, h) ==
    IF w >= 0 /\ h >= 0
    THEN [some |-> TRUE, x |-> x, y |-> y, width |-> w, height |-> h]
    ELSE NoRect

(* A faulty variant of layout::get_item_rect_f32: column and row exchanged *)
get_item_rect_f32_transposed(index, width, height, items_per_row, item_width, item_height, padding, adjust_select_rect) ==
    IF width = 0 \/ height = 0 \/ items_per_row = 0
    THEN NoRect
    ELSE LET col == index \div items_per_row
             row == index % items_per_row
             grid_x == col * item_width + padding
             grid_y == row * item_height + padding
             adjusted_y == grid_y - adjust_select_rect
             adjusted_height == (item_height - padding) + adjust_select_rect * 2
         IN  Rect_from_xywh(grid_x, adjusted_y, item_width - padding, adjusted_height)

(* A faulty variant of layout::get_item_rect_f32: the bottom padding of    *)
(* the cell is part of the rectangle.                                       *)
get_item_rect_f32_with_padding(index, width, height, items_per_row, item_width, item_height, padding, adjust_select_rect) ==
    IF width = 0 \/ height = 0 \/ items_per_row = 0
    THEN NoRect
    ELSE LET col == index % items_per_row
             row == index \div items_per_row
             grid_x == col * item_width + padding
             grid_y == row * item_height + padding
             adjusted_y == grid_y - adjust_select_rect
             adjusted_height == item_height + adjust_select_rect * 2
         IN  Rect_from_xywh(grid_x, adjusted_y, item_width - padding, adjusted_height)

(* layout::get_item_rect_f32 *)
get_item_rect_f32(index, width, height, items_per_row, item_width, item_height, padding, adjust_select_rect) ==
    IF width = 0 \/ height = 0 \/ items_per_row = 0
    THEN NoRect
    ELSE LET col == index % items_per_row
             row == index \div items_per_row
             grid_x == col * item_width + padding
             grid_y == row * item_height + padding
             adjusted_y == grid_y - adjust_select_rect
             adjusted_height == (item_height - padding) + adjust_select_rect * 2
         IN  Rect_from_xywh(grid_x, adjusted_y, item_width - padding, adjusted_height)

(* MyGraphics::get_item_rect_f32 of graphics.rs *)
MyGraphics_get_item_rect_f32(self, index) ==
    IF self.width = 0 \/ self.height = 0 \/ self.items_per_row = 0
    THEN NoRect
    ELSE LET col == index % self.items_per_row
             row == index \div self.items_per_row
             grid_x == col * self.item_width + Px(PADDING)
             grid_y == row * self.item_height + Px(PADDING)
             adjusted_y == grid_y - Px(ADJUST_SELECT_RECT)
             adjusted_height == (self.item_height - Px(PADDING)) - Px(ADJUST_SELECT_RECT)
         IN  Rect_from_xywh(grid_x, adjusted_y, self.item_width - Px(PADDING),
                            adjusted_height)

(* MyGraphics::get_item_rect_f32 of _temp.rs *)
temp_get_item_rect_f32(self, index) ==
    IF self.width = 0 \/ self.height = 0 \/ self.items_per_row = 0
    THEN NoRect
    ELSE LET col == index % self.items_per_row
             row == index \div self.items_per_row
             grid_x == col * self.item_width + self.padding
             grid_y == row * self.item_height + self.padding
             adjusted_y == grid_y - self.adjust_select_rect
             adjusted_height == (self.item_height - self.padding) - self.adjust_select_rect
         IN  Rect_from_xywh(grid_x, adjusted_y, self.item_width - Px(BASE_PADDING),
                            adjusted_height)

(* A faulty variant of update_scaled_layout_values: the metrics are scaled *)
(* but the grid is left as it was.                                          *)
update_scaled_layout_values_stale_grid(self) ==
    [self EXCEPT !.padding = Scaled(BASE_PADDING, self.scale_factor),
                 !.layout_icon_size = Scaled(BASE_LAYOUT_ICON_SIZE, self.scale_factor),
                 !.padding_under_icon = Scaled(PADDING_UNDER_ICON, self.scale_factor),
                 !.text_height = Scaled(BASE_TEXT_HEIGHT, self.scale_factor),
                 !.text_font_size = Scaled(BASE_TEXT_FONT_SIZE, self.scale_factor),
                 !.adjust_select_rect = Scaled(BASE_ADJUST_SELECT_RECT, self.scale_factor),
                 !.calculated = TRUE]

(* MyGraphics::update_scaled_layout_values of _temp.rs; the MyGraphics of   *)
(* graphics.rs has the constants in place of the scaled fields.             *)
update_scaled_layout_values(self) ==
    LET scaled ==
            IF self.impl = "graphics"
            THEN [self EXCEPT !.padding = Px(PADDING),
                              !.layout_icon_size = Px(LAYOUT_ICON_SIZE),
                              !.padding_under_icon = Px(PADDING_UNDER_ICON),
                              !.text_height = Px(TEXT_HEIGHT),
                              !.text_font_size = Px(TEXT_FONT_SIZE),
                              !.adjust_select_rect = Px(ADJUST_SELECT_RECT)]
            ELSE [self EXCEPT !.padding = Scaled(BASE_PADDING, self.scale_factor),
                              !.layout_icon_size =
                                  Scaled(BASE_LAYOUT_ICON_SIZE, self.scale_factor),
                              !.padding_under_icon =
                                  Scaled(IF self.impl = "temp" THEN PADDING_UNDER_ICON
                                         ELSE BASE_PADDING_UNDER_ICON, self.scale_factor),
                              !.text_height = Scaled(BASE_TEXT_HEIGHT, self.scale_factor),
                              !.text_font_size =
                                  Scaled(BASE_TEXT_FONT_SIZE, self.scale_factor),
                              !.adjust_select_rect =
                                  Scaled(BASE_ADJUST_SELECT_RECT, self.scale_factor)]
        grid ==
            IF self.impl = "graphics"
            THEN calculate_layout(self.width)
            ELSE calculate_internal_layout(scaled.width, scaled.layout_icon_size,
                                           scaled.padding, scaled.padding_under_icon,
                                           scaled.text_height)
    IN  [scaled EXCEPT !.items_per_row = grid.items_per_row,
                       !.max_text_width = grid.max_text_width,
                       !.item_width = grid.item_width,
                       !.item_height = grid.item_height,
                       !.calculated = TRUE]

(* Window inner sizes and scale factors *)
Widths == {0, 1, 100, 116, 222, 300, 328, 640}
Heights == {0, 1, 200}
ScaleFactors == {1, 4, 5, 6, 8}

(* MyGraphics::new of graphics.rs and of _temp.rs for a window with a       *)
(* non-empty inner size (the constructor panics for an empty one), or the   *)
(* arguments of the free functions of layout.rs before the first call.      *)
LayoutInit ==
    /\ \E impl \in {"layout", "graphics", "temp"}, width \in Widths,
          height \in Heights, scale_factor \in ScaleFactors :
          LET fields == [NoLayout EXCEPT !.impl = impl, !.width = width,
                                         !.height = height, !.op = "new",
                                         !.scale_factor = scale_factor]
          IN  \/ /\ impl = "layout"
                 /\ layout = fields
              \/ /\ impl = "temp"
                 /\ width > 0 /\ height > 0
                 /\ layout = update_scaled_layout_values(fields)
              \/ /\ impl = "graphics"
                 /\ width > 0 /\ height > 0
                 /\ scale_factor = 4
                 /\ layout = update_scaled_layout_values(fields)
    /\ IconIdle /\ FrameIdle /\ FinishIdle /\ ColorIdle
    /\ ParseIdle /\ ClampIdle /\ TextIdle /\ SurfaceIdle
    /\ BorderIdle /\ ManagerIdle

(* layout::calculate_internal_layout called with the scaled metrics *)
CalculateInternalLayout ==
    /\ layout.impl = "layout"
    /\ ~layout.calculated
    /\ layout' = update_scaled_layout_values(
                     [layout EXCEPT !.queried = FALSE, !.index = 0, !.rect = NoRect,
                                    !.op = "calculate_internal_layout"])
    /\ UNCHANGED <<iconVars, frameVars, finishVars, colorVars, parseVars, clamp, text, surface, border_calls, manager>>

(* MyGraphics::resize(new_size): NonZeroU32::new(..).unwrap() panics for   *)
(* an empty size, after self.width and self.height were assigned.           *)
LayoutResize(new_width, new_height) ==
    /\ layout.impl \in {"graphics", "temp"}
    /\ ~layout.panicked
    /\ LET sized == [layout EXCEPT !.width = new_width, !.height = new_height,
                                   !.queried = FALSE, !.index = 0, !.rect = NoRect,
                                   !.op = "resize"]
       IN  layout' = IF new_width = 0 \/ new_height = 0
                     THEN [sized EXCEPT !.panicked = TRUE]
                     ELSE update_scaled_layout_values(sized)
    /\ UNCHANGED <<iconVars, frameVars, finishVars, colorVars, parseVars, clamp, text, surface, border_calls, manager>>

(* MyGraphics::update_scale_factor(new_scale_factor) of _temp.rs *)
UpdateScaleFactor(new_scale_factor) ==
    /\ layout.impl = "temp"
    /\ ~layout.panicked
    /\ layout' = IF new_scale_factor # layout.scale_factor
                 THEN update_scaled_layout_values(
                          [layout EXCEPT !.scale_factor = new_scale_factor,
                                         !.queried = FALSE, !.index = 0,
                                         !.rect = NoRect,
                                         !.op = "update_scale_factor"])
                 ELSE [layout EXCEPT !.op = "update_scale_factor"]
    /\ UNCHANGED <<iconVars, frameVars, finishVars, colorVars, parseVars, clamp, text, surface, border_calls, manager>>

(* get_item_rect_f32(index) of the three implementations; the returned    *)
(* rectangle is kept until the layout changes.                              *)
GetItemRect(index) ==
    /\ ~layout.panicked
    /\ layout' =
          [layout EXCEPT
              !.queried = TRUE,
              !.index = index,
              !.rect = IF layout.impl = "graphics"
                       THEN MyGraphics_get_item_rect_f32(layout, index)
                       ELSE IF layout.impl = "temp"
                       THEN temp_get_item_rect_f32(layout, index)
                       ELSE get_item_rect_f32(index, layout.width, layout.height,
                                layout.items_per_row, layout.item_width,
                                layout.item_height, layout.padding,
                                layout.adjust_select_rect)]
    /\ UNCHANGED <<iconVars, frameVars, finishVars, colorVars, parseVars, clamp, text, surface, border_calls, manager>>

LayoutNext ==
    \/ CalculateInternalLayout
    \/ \E new_width \in Widths, new_height \in Heights :
          LayoutResize(new_width, new_height)
    \/ \E new_scale_factor \in ScaleFactors : UpdateScaleFactor(new_scale_factor)
    \/ \E index \in 0..MaxIndex : GetItemRect(index)

SpecLayout == LayoutInit /\ [][LayoutNext]_vars

(* C31: after any sequence of resize and update_scale_factor calls on the  *)
(* MyGraphics of _temp.rs, every stored layout value equals the value       *)
(* recomputed from the current state: padding, icon size, padding under the *)
(* icon, text height, font size and selection inset are the base constants  *)
(* 10, 48, 12, 16, 16 and 3 times the current scale factor, and             *)
(* max_text_width, item_width, item_height and items_per_row are the grid   *)
(* computed from the current width and those metrics.                       *)
C31_StoredLayoutIsCurrent ==
    (layout.impl = "temp" /\ ~layout.panicked) =>
       LET scale == layout.scale_factor
           item_width == 48 * scale * 2 + 10 * scale
           room == layout.width * 4 - 10 * scale
       IN  /\ layout.padding = 10 * scale
           /\ layout.layout_icon_size = 48 * scale
           /\ layout.padding_under_icon = 12 * scale
           /\ layout.text_height = 16 * scale
           /\ layout.text_font_size = 16 * scale
           /\ layout.adjust_select_rect = 3 * scale
           /\ layout.max_text_width = 48 * scale * 2
           /\ layout.item_width = item_width
           /\ layout.item_height = 48 * scale + 12 * scale + 16 * scale + 10 * scale
           /\ layout.items_per_row =
                  IF room < item_width THEN 1
                  ELSE CHOOSE k \in 1..(room + 1) :
                           k * item_width <= room /\ (k + 1) * item_width > room

(* C31 witness: after a change of the scale factor to 2.0 a window 640    *)
(* pixels wide has metrics of twice the base constants and 2 columns (at    *)
(* scale 1.0 it has 5).                                                     *)
C31_Witness ==
    /\ layout.impl = "temp"
    /\ layout.op = "update_scale_factor"
    /\ layout.width = 640
    /\ layout.scale_factor = 8
    /\ layout.padding = Px(20)
    /\ layout.text_font_size = Px(32)
    /\ layout.item_width = Px(212)
    /\ layout.items_per_row = 2

(* C13: in every state reached from construction by any sequence of        *)
(* resizes and scale factor changes, and after every call of the free       *)
(* function, also for window width 0 and for widths smaller than one item,  *)
(* items_per_row is at least 1.                                             *)
C13_ItemsPerRowAtLeastOne ==
    layout.calculated => layout.items_per_row >= 1

(* C13 witness: the grid was computed for a window of width 0. *)
C13_Witness ==
    /\ layout.calculated
    /\ layout.width = 0
    /\ layout.items_per_row = 1

(* C14: the computed grid has max_text_width = icon size * 2, item_width =  *)
(* max_text_width + padding, item_height = icon size + padding under the    *)
(* icon + text height + padding, and items_per_row is the largest count of  *)
(* items that fit in the window width less the padding, or 1 if none fits;  *)
(* width 300, icon size 48 and padding 10 give item width 106 and 2         *)
(* columns.                                                                 *)
C14_GridFormulas ==
    (layout.calculated /\ ~layout.panicked) =>
       /\ layout.max_text_width = layout.layout_icon_size * 2
       /\ layout.item_width = layout.max_text_width + layout.padding
       /\ layout.item_height = layout.layout_icon_size + layout.padding_under_icon
                                  + layout.text_height + layout.padding
       /\ LET room == Px(layout.width) - layout.padding
          IN  IF room < layout.item_width
              THEN layout.items_per_row = 1
              ELSE /\ layout.items_per_row * layout.item_width <= room
                   /\ (layout.items_per_row + 1) * layout.item_width > room
       /\ (/\ layout.width = 300
           /\ layout.layout_icon_size = Px(48)
           /\ layout.padding = Px(10)) =>
              /\ layout.item_width = Px(106)
              /\ layout.items_per_row = 2

(* C14 witness: layout::calculate_internal_layout(300, 48.0, 10.0, 2.0,    *)
(* 16.0) was computed.                                                      *)
C14_Witness ==
    /\ layout.impl = "layout"
    /\ layout.calculated
    /\ layout.width = 300
    /\ layout.scale_factor = 4
    /\ layout.item_width = Px(106)
    /\ layout.items_per_row = 2

(* The rectangle the implementation of the layout returns for an index *)
ItemRectOf(self, index) ==
    IF self.impl = "graphics" THEN MyGraphics_get_item_rect_f32(self, index)
    ELSE IF self.impl = "temp" THEN temp_get_item_rect_f32(self, index)
    ELSE get_item_rect_f32(index, self.width, self.height, self.items_per_row,
                           self.item_width, self.item_height, self.padding,
                           self.adjust_select_rect)

(* Two rectangles have a point in common, a point (x, y) being in a         *)
(* rectangle when rect.x <= x < rect.x + width and rect.y <= y < rect.y +   *)
(* height, as find_icon_at_relative_pos tests it.                           *)
Overlap(a, b) ==
    /\ a.some /\ b.some
    /\ a.x < b.x + b.width
    /\ b.x < a.x + a.width
    /\ a.y < b.y + b.height
    /\ b.y < a.y + a.height

(* C39: for every window width and scale factor the rectangle              *)
(* get_item_rect_f32 returns for an index overlaps the rectangle of no      *)
(* other index, so a cursor position is inside the rectangle of at most     *)
(* one item.                                                                *)
C39_ItemRectsDoNotOverlap ==
    (layout.queried /\ layout.rect.some) =>
        \A j \in (0..MaxIndex) \ {layout.index} :
            ~Overlap(layout.rect, ItemRectOf(layout, j))

(* C39 witness: in a window of layout.rs two items wide at scale 1 the     *)
(* rectangle of index 0 ends 10 pixels left of that of index 1 and 4        *)
(* pixels above that of index 2.                                            *)
C39_Witness ==
    /\ layout.impl = "layout"
    /\ layout.queried
    /\ layout.index = 0
    /\ layout.rect.some
    /\ layout.items_per_row = 2
    /\ layout.scale_factor = 4
    /\ ItemRectOf(layout, 1).x = layout.rect.x + layout.rect.width + Px(10)
    /\ ItemRectOf(layout, 2).y = layout.rect.y + layout.rect.height + Px(4)

(* C15: get_item_rect_f32 returns None when the window width, the window   *)
(* height or items_per_row is 0; a rectangle it returns for an index        *)
(* belongs to the cell in column index mod items_per_row and row index div  *)
(* items_per_row, whose origin is (col * item_width + padding,              *)
(* row * item_height + padding): the rectangle starts at the origin's x     *)
(* and the selection inset above the origin's y.                            *)
C15_ItemRectCell ==
    layout.queried =>
       /\ (layout.width = 0 \/ layout.height = 0 \/ layout.items_per_row = 0)
             => ~layout.rect.some
       /\ layout.rect.some =>
             /\ layout.rect.x =
                   (layout.index % layout.items_per_row) * layout.item_width
                      + layout.padding
             /\ layout.rect.y + layout.adjust_select_rect =
                   (layout.index \div layout.items_per_row) * layout.item_height
                      + layout.padding

(* C15 witness: index 3 in a window of width 300 at scale 1 (2 columns) is *)
(* in column 1, row 1.                                                      *)
C15_Witness ==
    /\ layout.impl = "graphics"
    /\ layout.queried
    /\ layout.index = 3
    /\ layout.items_per_row = 2
    /\ layout.rect.some
    /\ layout.rect.x = Px(106 + 10)
    /\ layout.rect.y = Px(86 + 10 - 3)

(* C16 as stated: every rectangle get_item_rect_f32 returns has            *)
(* x = col * item_width + padding, width = item_width - padding (the scaled *)
(* padding), y = row * item_height + padding - inset and                    *)
(* height = (item_height - padding) + 2 * inset.                            *)
C16_HoverRectExtendsBothEdges ==
    (layout.queried /\ layout.rect.some) =>
       /\ layout.rect.x =
             (layout.index % layout.items_per_row) * layout.item_width + layout.padding
       /\ layout.rect.width = layout.item_width - layout.padding
       /\ layout.rect.y =
             (layout.index \div layout.items_per_row) * layout.item_height
                + layout.padding - layout.adjust_select_rect
       /\ layout.rect.height =
             (layout.item_height - layout.padding) + 2 * layout.adjust_select_rect


---------------------------------------------------------------------------
(* The ellipsis step of draw_text (drawing.rs, and MyGraphics::draw_text of *)
(* graphics.rs) with calculate_text_width of layout.rs.  A text is a        *)
(* sequence of characters; widths are whole tenths of a pixel.  The font is *)
(* data of the build: here "?" has no glyph (glyph id 0), and one pair is   *)
(* kerned.                                                                  *)

MaxText == 3
MaxWidth == 30

(* The characters of a label: "a" is an ASCII letter, "W" a wide letter of *)
(* three UTF-8 bytes, "." the full stop, and "?" a character of three       *)
(* bytes the font has no glyph for.                                         *)
Chars == {"a", "W", ".", "?"}

(* char::len_utf8 *)
len_utf8(c) == IF c = "W" \/ c = "?" THEN 3 ELSE 1

(* The byte index text.char_indices() gives for the i-th character, and   *)
(* the byte length of the text for i = Len(str) + 1.                        *)
RECURSIVE byte_index(_, _)
byte_index(str, i) ==
    IF i <= 1 THEN 0 ELSE byte_index(str, i - 1) + len_utf8(str[i - 1])

(* str::is_char_boundary *)
is_char_boundary(str, index) ==
    \E i \in 1..(Len(str) + 1) : byte_index(str, i) = index

(* &text[..index] for an index on a character boundary (the slice panics   *)
(* for any other index)                                                     *)
str_prefix(str, index) ==
    SubSeq(str, 1, Cardinality({i \in 1..Len(str) : byte_index(str, i + 1) <= index}))

(* scaled_font.scaled_glyph(c).id.0 *)
GlyphId(c) == IF c = "?" THEN 0 ELSE IF c = "a" THEN 1 ELSE IF c = "W" THEN 2 ELSE 3

(* scaled_font.h_advance(id) *)
h_advance(c) == IF c = "a" THEN 6 ELSE IF c = "W" THEN 10 ELSE IF c = "." THEN 3 ELSE 5

(* scaled_font.kern(last_id, id) *)
kern(last, c) == IF last = "W" /\ c = "a" THEN 0 - 1 ELSE 0

(* layout::calculate_text_width: glyph 0 is skipped and does not become     *)
(* the last glyph; from position i on, after the glyph `last` ("" for       *)
(* None), with the width so far.                                            *)
RECURSIVE TextWidthFrom(_, _, _, _)
TextWidthFrom(str, i, last, total_width) ==
    IF i > Len(str) THEN total_width
    ELSE IF GlyphId(str[i]) = 0 THEN TextWidthFrom(str, i + 1, last, total_width)
    ELSE TextWidthFrom(str, i + 1, str[i],
             total_width + (IF last # "" THEN kern(last, str[i]) ELSE 0)
                         + h_advance(str[i]))

calculate_text_width(str) == TextWidthFrom(str, 1, "", 0)

(* The truncation loop of draw_text: truncated_len = i + c.len_utf8() is   *)
(* the byte offset just past the last accepted character, i the byte index  *)
(* of the character.                                                        *)
RECURSIVE TruncatedLen(_, _, _, _, _, _)
TruncatedLen(str, i, last, current_width, truncated_len, target_width) ==
    IF i > Len(str) THEN truncated_len
    ELSE IF GlyphId(str[i]) = 0
    THEN TruncatedLen(str, i + 1, last, current_width, truncated_len, target_width)
    ELSE LET char_width == h_advance(str[i])
                              + (IF last # "" THEN kern(last, str[i]) ELSE 0)
         IN  IF current_width + char_width > target_width
             THEN truncated_len
             ELSE TruncatedLen(str, i + 1, str[i], current_width + char_width,
                               byte_index(str, i) + len_utf8(str[i]), target_width)

Ellipsis == <<".", ".", ".">>

(* A faulty variant of draw_text: a text exactly as wide as max_width is    *)
(* shortened too.                                                           *)
draw_text_strict(str, max_width) ==
    LET ellipsis_width == calculate_text_width(Ellipsis)
        truncated_len == TruncatedLen(str, 1, "", 0, 0, max_width - ellipsis_width)
        text_to_draw ==
            IF calculate_text_width(str) >= max_width
            THEN IF max_width <= ellipsis_width
                 THEN Ellipsis
                 ELSE str_prefix(str, truncated_len) \o Ellipsis
            ELSE str
    IN  [text_to_draw |-> text_to_draw,
         final_text_width |-> calculate_text_width(text_to_draw),
         truncated_len |-> truncated_len,
         panicked |-> /\ calculate_text_width(str) > max_width
                      /\ max_width > ellipsis_width
                      /\ ~is_char_boundary(str, truncated_len)]

(* drawing::draw_text, lines 148-182 *)
draw_text(str, max_width) ==
    LET ellipsis_width == calculate_text_width(Ellipsis)
        truncated_len == TruncatedLen(str, 1, "", 0, 0, max_width - ellipsis_width)
        text_to_draw ==
            IF calculate_text_width(str) > max_width
            THEN IF max_width <= ellipsis_width
                 THEN Ellipsis
                 ELSE str_prefix(str, truncated_len) \o Ellipsis
            ELSE str
    IN  [text_to_draw |-> text_to_draw,
         final_text_width |-> calculate_text_width(text_to_draw),
         truncated_len |-> truncated_len,
         panicked |-> /\ calculate_text_width(str) > max_width
                      /\ max_width > ellipsis_width
                      /\ ~is_char_boundary(str, truncated_len)]

(* MyGraphics::draw_text of graphics.rs, lines 463-506 *)
MyGraphics_draw_text(str, max_width) ==
    LET ellipsis_width == calculate_text_width(Ellipsis)
        truncated_len == TruncatedLen(str, 1, "", 0, 0, max_width - ellipsis_width)
        original_text_width == calculate_text_width(str)
        text_to_draw ==
            IF original_text_width > max_width
            THEN IF max_width <= ellipsis_width
                 THEN Ellipsis
                 ELSE str_prefix(str, truncated_len) \o Ellipsis
            ELSE str
    IN  [text_to_draw |-> text_to_draw,
         final_text_width |-> IF original_text_width > max_width
                              THEN calculate_text_width(text_to_draw)
                              ELSE original_text_width,
         truncated_len |-> truncated_len,
         panicked |-> /\ original_text_width > max_width
                      /\ max_width > ellipsis_width
                      /\ ~is_char_boundary(str, truncated_len)]

RECURSIVE Strings(_)
Strings(n) ==
    IF n = 0 THEN {<<>>}
    ELSE Strings(n - 1) \cup {Append(str, c) : str \in Strings(n - 1), c \in Chars}

(* The drawing loop of draw_text (drawing.rs): the caret moves by the      *)
(* kerning against the previous glyph and by the advance of every           *)
(* character, the undefined glyph 0 included, and every glyph becomes the   *)
(* previous one; from position i on, after the glyph `last` ("" for None).  *)
RECURSIVE CaretFrom(_, _, _, _)
CaretFrom(str, i, last, caret_x) ==
    IF i > Len(str) THEN caret_x
    ELSE CaretFrom(str, i + 1, str[i],
             caret_x + (IF last # "" THEN kern(last, str[i]) ELSE 0)
                     + h_advance(str[i]))

(* The total caret advance of the drawing loop of draw_text (drawing.rs) *)
draw_text_caret(str) == CaretFrom(str, 1, "", 0)

RECURSIVE MyGraphics_draw_text_caret(_)
(* The total caret advance of the drawing loop of MyGraphics::draw_text    *)
(* (graphics.rs): the advance of every character, without kerning.          *)
MyGraphics_draw_text_caret(str) ==
    IF str = <<>> THEN 0
    ELSE h_advance(Head(str)) + MyGraphics_draw_text_caret(Tail(str))

TextInit ==
    /\ \E impl \in {"drawing", "graphics"}, str \in Strings(MaxText),
          max_width \in 0..MaxWidth :
          text = [impl |-> impl, text |-> str, max_width |-> max_width,
                  done |-> FALSE, text_to_draw |-> <<>>, final_text_width |-> 0,
                  truncated_len |-> 0, panicked |-> FALSE, caret_advance |-> 0]
    /\ IconIdle /\ FrameIdle /\ FinishIdle /\ ColorIdle
    /\ ParseIdle /\ ClampIdle /\ LayoutIdle /\ SurfaceIdle
    /\ BorderIdle /\ ManagerIdle

DrawText ==
    /\ ~text.done
    /\ LET chosen == IF text.impl = "drawing"
                     THEN draw_text(text.text, text.max_width)
                     ELSE MyGraphics_draw_text(text.text, text.max_width)
       IN  text' = [text EXCEPT !.done = TRUE,
                                !.text_to_draw = chosen.text_to_draw,
                                !.final_text_width = chosen.final_text_width,
                                !.truncated_len = chosen.truncated_len,
                                !.panicked = chosen.panicked,
                                !.caret_advance =
                                    IF chosen.panicked THEN 0
                                    ELSE IF text.impl = "drawing"
                                    THEN draw_text_caret(chosen.text_to_draw)
                                    ELSE MyGraphics_draw_text_caret(chosen.text_to_draw)]
    /\ UNCHANGED <<iconVars, frameVars, finishVars, colorVars, parseVars, clamp, layout, surface, border_calls, manager>>

SpecText == TextInit /\ [][DrawText]_vars

(* C17 as stated: for every text and every max_width the text draw_text    *)
(* chose to display measures (advances plus kerning, ellipsis included) at  *)
(* most max_width.                                                          *)
C17_DisplayTextFits ==
    text.done => calculate_text_width(text.text_to_draw) <= text.max_width

(* C18: a text that measures at most max_width is displayed as it is, also *)
(* when it measures exactly max_width and when it is empty.                 *)
C18_FittingTextUnchanged ==
    (text.done /\ calculate_text_width(text.text) <= text.max_width)
       => /\ text.text_to_draw = text.text
          /\ text.final_text_width = calculate_text_width(text.text)

(* C33 as stated: for every display text the total caret advance of the   *)
(* drawing loop equals calculate_text_width of that text, which is the     *)
(* final width the start of the run was centred with, so the run ends at    *)
(* originX + maxWidth/2 + finalWidth/2.                                     *)
C33_CaretAdvanceIsTextWidth ==
    text.done =>
        /\ text.caret_advance = calculate_text_width(text.text_to_draw)
        /\ text.caret_advance = text.final_text_width

(* C30 as stated: when the text measures more than max_width, the         *)
(* displayed text is the ellipsis alone if max_width <= ellipsisWidth, and  *)
(* otherwise the longest prefix of whole characters of the text whose       *)
(* accumulated width (advances plus kerning) is at most max_width -         *)
(* ellipsisWidth, followed by the ellipsis; the text is cut on a character  *)
(* boundary (the slice did not panic).                                      *)
C30_LongestFittingPrefix ==
    (text.done /\ calculate_text_width(text.text) > text.max_width) =>
        LET ellipsis_width == calculate_text_width(Ellipsis)
            target_width == text.max_width - ellipsis_width
            fits(n) == calculate_text_width(SubSeq(text.text, 1, n)) <= target_width
        IN  IF text.max_width <= ellipsis_width
            THEN text.text_to_draw = Ellipsis
            ELSE /\ ~text.panicked
                 /\ is_char_boundary(text.text, text.truncated_len)
                 /\ \E n \in 0..Len(text.text) :
                       /\ text.text_to_draw = SubSeq(text.text, 1, n) \o Ellipsis
                       /\ fits(n)
                       /\ \A m \in (n + 1)..Len(text.text) : ~fits(m)

(* C18 witness: "aW" measures 16 and was drawn with max_width 16. *)
C18_Witness ==
    /\ text.done
    /\ text.text = <<"a", "W">>
    /\ text.max_width = 16
    /\ calculate_text_width(text.text) = 16
    /\ text.text_to_draw = <<"a", "W">>


---------------------------------------------------------------------------
(* The sizes MyGraphics keeps: MyGraphics::new, MyGraphics::resize and the  *)
(* copy loop of MyGraphics::draw_finish (graphics.rs).  A size is a pair    *)
(* <<width, height>>; widths and heights are scaled machine words, and      *)
(* Pixmap::new fails for a row that does not fit (PixmapNew).               *)

MaxSide == 4

Sizes == (0..MaxSide) \X (0..MaxSide)

NoReads == [done |-> FALSE, pixels |-> {}, out_of_range |-> FALSE]

(* MyGraphics::new for a window of the given inner size: the constructor    *)
(* panics for an empty size and when the pixmap cannot be made.             *)
SurfaceInit ==
    /\ \E size \in Sizes :
          /\ PixmapNew(size[1], size[2])
          /\ surface = [window |-> size, width |-> size[1], height |-> size[2],
                        pixmap_size |-> size, surface_size |-> size,
                        resized |-> FALSE, panicked |-> FALSE, finish |-> NoReads]
    /\ IconIdle /\ FrameIdle /\ FinishIdle /\ ColorIdle
    /\ ParseIdle /\ ClampIdle /\ LayoutIdle /\ TextIdle
    /\ BorderIdle /\ ManagerIdle

(* A faulty variant of MyGraphics::resize: the pixmap is not made anew *)
GraphicsResizeKeepingPixmap(new_width, new_height) ==
    /\ ~surface.panicked
    /\ LET sized == [surface EXCEPT !.window = <<new_width, new_height>>,
                                    !.width = new_width, !.height = new_height,
                                    !.resized = TRUE, !.finish = NoReads]
       IN  surface' =
              IF new_width = 0 \/ new_height = 0
              THEN [sized EXCEPT !.panicked = TRUE]
              ELSE [sized EXCEPT !.surface_size = <<new_width, new_height>>]
    /\ UNCHANGED <<iconVars, frameVars, finishVars, colorVars, parseVars, clamp, layout, text, border_calls, manager>>

(* MyGraphics::resize(new_size), called with the new inner size of the      *)
(* window: self.width and self.height are assigned, then                    *)
(* NonZeroU32::new(..).unwrap() panics for an empty size, then the surface  *)
(* is resized, then Pixmap::new(..).expect(..) panics when the pixmap       *)
(* cannot be made.                                                          *)
GraphicsResize(new_width, new_height) ==
    /\ ~surface.panicked
    /\ LET sized == [surface EXCEPT !.window = <<new_width, new_height>>,
                                    !.width = new_width, !.height = new_height,
                                    !.resized = TRUE, !.finish = NoReads]
       IN  surface' =
              IF new_width = 0 \/ new_height = 0
              THEN [sized EXCEPT !.panicked = TRUE]
              ELSE IF ~PixmapNew(new_width, new_height)
              THEN [sized EXCEPT !.surface_size = <<new_width, new_height>>,
                                 !.panicked = TRUE]
              ELSE [sized EXCEPT !.surface_size = <<new_width, new_height>>,
                                 !.pixmap_size = <<new_width, new_height>>]
    /\ UNCHANGED <<iconVars, frameVars, finishVars, colorVars, parseVars, clamp, layout, text, border_calls, manager>>

(* The loop of MyGraphics::draw_finish: for the i-th word of the surface    *)
(* buffer it reads pixmap_data[i * 4 .. i * 4 + 3], pixel i of the pixmap;  *)
(* an index past the pixmap panics.  No draw follows a panic.               *)
GraphicsDrawFinish ==
    /\ ~surface.panicked
    /\ LET words == surface.surface_size[1] * surface.surface_size[2]
           pixels == surface.pixmap_size[1] * surface.pixmap_size[2]
       IN  surface' =
              [surface EXCEPT
                  !.finish = [done |-> TRUE,
                              pixels |-> {i \in 0..(words - 1) : i < pixels},
                              out_of_range |-> words > pixels],
                  !.panicked = words > pixels]
    /\ UNCHANGED <<iconVars, frameVars, finishVars, colorVars, parseVars, clamp, layout, text, border_calls, manager>>

SurfaceNext ==
    \/ \E size \in Sizes : GraphicsResize(size[1], size[2])
    \/ GraphicsDrawFinish

SpecSurface == SurfaceInit /\ [][SurfaceNext]_vars

(* C20: in every state a draw can start from (after construction and after *)
(* every resize that returned), the pixmap size, the stored width and       *)
(* height and the surface size equal the latest inner size of the window;   *)
(* a draw_finish reads pixel i of the pixmap for each of the width * height *)
(* surface words i and nothing else, never past the pixmap; and a draw_     *)
(* finish never ran on a state whose sizes differ.                          *)
C20_SizesFollowWindow ==
    /\ ~surface.panicked =>
          /\ surface.pixmap_size = surface.window
          /\ <<surface.width, surface.height>> = surface.window
          /\ surface.surface_size = surface.window
    /\ surface.finish.done =>
          /\ ~surface.finish.out_of_range
          /\ surface.finish.pixels = 0..(surface.window[1] * surface.window[2] - 1)
          /\ surface.pixmap_size = surface.surface_size

(* C20 witness: a window was resized to 3 x 2 and then presented. *)
C20_Witness ==
    /\ surface.resized
    /\ surface.window = <<3, 2>>
    /\ surface.pixmap_size = <<3, 2>>
    /\ surface.finish.done
    /\ surface.finish.pixels = 0..5


(* C21 as stated: with an inner size of width 0 or height 0 (a Resized     *)
(* event with an empty size), resize and the draws that follow it return    *)
(* without a fault.                                                         *)
C21_ZeroSizeNeverFaults ==
    (surface.resized /\ (surface.window[1] = 0 \/ surface.window[2] = 0))
       => ~surface.panicked


---------------------------------------------------------------------------
(* calculate_border_color (child_window.rs; mywindow.rs holds the same      *)
(* function).  Hues are kept in 1/100 degree, saturation and lightness in   *)
(* 1/100 percent, colour channels as bytes; the f64 arithmetic of the       *)
(* colorsys conversions is followed in these units, rounding down; for the *)
(* background colours below no channel of a result lies near a whole        *)
(* number, so the bytes are those the f64 arithmetic gives.                 *)

MaxCalls == 2

(* The identity strings: the two of the unit tests, and window ids as       *)
(* settings::generate_child_id makes them ("%Y%m%d%H%M%S%3f").              *)
IdStrs == {"id_one", "id_two", "consistent_id",
           "20240101120000004", "20240101120000005"}

(* Background colours: the two of the unit tests, white and black *)
BgColors ==
    { [r |-> c[1], g |-> c[2], b |-> c[3], a |-> AlphaOne] :
        c \in {<<120, 120, 120>>, <<100, 150, 200>>, <<255, 255, 255>>, <<0, 0, 0>>} }

(* hasher.finish() % 21 for id_str.hash(&mut DefaultHasher::new()):         *)
(* DefaultHasher::new() is SipHash-1-3 with the fixed keys (0, 0), fed the  *)
(* bytes of the string and one 0xFF byte.  The residues are those of the    *)
(* identity strings above.                                                  *)
hash_mod_21(id_str) ==
    CASE id_str = "id_one" -> 2
      [] id_str = "id_two" -> 14
      [] id_str = "consistent_id" -> 8
      [] id_str = "20240101120000004" -> 5
      [] id_str = "20240101120000005" -> 5
      [] OTHER -> 0

(* colorsys: Hsl from Rgb *)
rgb_to_hsl(red, green, blue) ==
    LET max == Max2(red, Max2(green, blue))
        min == Min2(red, Min2(green, blue))
        total == max + min
        delta == max - min
    IN  [hue |->
            IF delta = 0 THEN 0
            ELSE IF max = red THEN (((green - blue) * 6000) \div delta) % 36000
            ELSE IF max = green THEN ((blue - red) * 6000) \div delta + 12000
            ELSE ((red - green) * 6000) \div delta + 24000,
         saturation |->
            IF delta = 0 THEN 0
            ELSE IF total < 255 THEN (delta * 10000) \div total
            ELSE (delta * 10000) \div (510 - total),
         lightness |-> (total * 10000) \div 510]

(* colorsys: Rgb from Hsl, each channel then cast with `as u8` *)
hsl_to_rgb(hsl) ==
    LET span == 2 * hsl.lightness - 10000
        chroma == ((10000 - (IF span < 0 THEN 0 - span ELSE span)) * hsl.saturation)
                     \div 10000
        within == (hsl.hue % 12000) - 6000
        second == (chroma * (6000 - (IF within < 0 THEN 0 - within ELSE within)))
                     \div 6000
        sector == (hsl.hue \div 6000) % 6
        unit == CASE sector = 0 -> <<chroma, second, 0>>
                  [] sector = 1 -> <<second, chroma, 0>>
                  [] sector = 2 -> <<0, chroma, second>>
                  [] sector = 3 -> <<0, second, chroma>>
                  [] sector = 4 -> <<second, 0, chroma>>
                  [] OTHER -> <<chroma, 0, second>>
        as_u8(v) == ((2 * v + 2 * hsl.lightness - chroma) * 255) \div 20000
    IN  [r |-> as_u8(unit[1]), g |-> as_u8(unit[2]), b |-> as_u8(unit[3])]

(* calculate_border_color(bg_color, id_str), given hasher.finish() % 21 *)
border_color_for(bg_color, residue) ==
    LET bg_hsl == rgb_to_hsl(bg_color.r, bg_color.g, bg_color.b)
        complement == (bg_hsl.hue + 18000) % 36000
        lightness == IF bg_hsl.lightness > 5000
                     THEN Min2(bg_hsl.lightness, 4000)
                     ELSE Max2(bg_hsl.lightness, 6000)
        saturation == Max2(bg_hsl.saturation, 3000)
        hue_shift == (residue - 10) * 100
        border_rgb == hsl_to_rgb([hue |-> (complement + hue_shift + 36000) % 36000,
                                  saturation |-> saturation,
                                  lightness |-> lightness])
    IN  [r |-> border_rgb.r, g |-> border_rgb.g, b |-> border_rgb.b, a |-> AlphaOne]

(* A faulty variant of calculate_border_color: one hasher is kept and fed   *)
(* by every call, so the hash depends on the calls made before.             *)
calculate_border_color_shared_hasher(bg_color, id_str) ==
    border_color_for(bg_color, (hash_mod_21(id_str) + Len(border_calls)) % 21)

(* calculate_border_color(bg_color, id_str): a new DefaultHasher per call *)
calculate_border_color(bg_color, id_str) ==
    border_color_for(bg_color, hash_mod_21(id_str))

BorderInit ==
    /\ border_calls = <<>>
    /\ IconIdle /\ FrameIdle /\ FinishIdle /\ ColorIdle
    /\ ParseIdle /\ ClampIdle /\ LayoutIdle /\ TextIdle
    /\ SurfaceIdle /\ ManagerIdle

(* One call of calculate_border_color, for any window, after any others *)
CalculateBorderColor(bg_color, id_str) ==
    /\ Len(border_calls) < MaxCalls
    /\ border_calls' = Append(border_calls,
                              [bg_color |-> bg_color, id_str |-> id_str,
                               result |-> calculate_border_color(bg_color, id_str)])
    /\ UNCHANGED <<iconVars, frameVars, finishVars, colorVars, parseVars, clamp, layout, text, surface, manager>>

BorderNext ==
    \E bg_color \in BgColors, id_str \in IdStrs : CalculateBorderColor(bg_color, id_str)

SpecBorder == BorderInit /\ [][BorderNext]_vars

C23_DifferentIdsDifferentColors ==
    \A i, j \in 1..Len(border_calls) :
        (/\ border_calls[i].bg_color = border_calls[j].bg_color
         /\ border_calls[i].id_str # border_calls[j].id_str)
           => border_calls[i].result # border_calls[j].result

-----------------------------------------------------------------------------
(* The window manager: keyboard and mouse events on the child windows       *)
(* (main.rs handle_window_event, mywindow.rs WindowManager).                *)
(*                                                                          *)
(* manager holds the fields of WindowManager the handlers of these events   *)
(* read and write: children (per window: whether it is managed and its      *)
(* groups, the paths of its icons in order), focused_id (0 for None),       *)
(* is_moving, is_resizing, hovered_icon, last_click and last_cursor_pos.    *)
(* now is the reading of Instant::now() in milliseconds.  keys is the       *)
(* state of the keyboard and the mouse: the window Ctrl (Shift) was pressed *)
(* on, 0 while the key is up, and whether the left button is down.  last    *)
(* is what the last event did: the item executed, the window whose drag     *)
(* the OS was asked to start, whether the confirmation dialog was shown     *)
(* and its answer, the item whose folder was opened, the window whose      *)
(* transparency the wheel changed.  Every child carries its id_str, the     *)
(* key of its entry of settings.children, and the width of its MyGraphics.  *)
(* settings is the children map of the global Settings, of which the icons  *)
(* of an entry are kept, file is that map as save_settings last wrote it,   *)
(* last_cursor_window_id is 0 for None, created counts the windows the      *)
(* event loop has created: window ids are not used twice.  The clipboard,   *)
(* the colours and the positions of the windows are left out.               *)
(* Cursor positions are in quarters of a pixel, as the item rectangles.     *)

Windows == {1, 2}

MaxNow == 500

DOUBLE_CLICK_THRESHOLD_MS == 500

(* The time that passes between two events, in milliseconds *)
Delays == {250, 500}

(* Cursor positions: inside the rectangle of item 0 and inside that of     *)
(* item 1, which is empty space in a window of fewer than two items.        *)
CursorPositions ==
    {[some |-> TRUE, x |-> Px(50), y |-> Px(40)],
     [some |-> TRUE, x |-> Px(150), y |-> Px(40)]}

(* The widths a child window is given: one item per row, two items per row *)
ChildWidths == {116, 300}

(* ChildSettings::default, width: the inner width a window is created with *)
DefaultWidth == 300

(* The most icons a window is given *)
MaxGroups == 2

(* The paths of the files dropped on a window *)
DroppedPaths == {"d"}

(* The MyGraphics of a child window of the given width and 200 pixels high *)
child_graphics ==
    [width \in ChildWidths |->
         update_scaled_layout_values([NoLayout EXCEPT !.impl = "graphics",
                                                      !.width = width,
                                                      !.height = 200,
                                                      !.scale_factor = 4])]

(* WindowControl::can_control *)
can_control(self) == self.keybord_pressed /\ self.mouse_pressed

(* Vec::remove(index), index counted from 0 *)
Vec_remove(vec, index) ==
    [k \in 1..(Len(vec) - 1) |-> IF k <= index THEN vec[k] ELSE vec[k + 1]]

(* WindowManager::find_icon_at_relative_pos *)
find_icon_at_relative_pos(self, window_id, cursor_pos_rel) ==
    IF ~self.children[window_id].managed
    THEN NoHit
    ELSE LET hits ==
                 {index \in 0..(Len(self.children[window_id].groups) - 1) :
                      LET item_rect ==
                              MyGraphics_get_item_rect_f32(
                                  child_graphics[self.children[window_id].width], index)
                      IN  /\ item_rect.some
                          /\ cursor_pos_rel.x >= item_rect.x
                          /\ cursor_pos_rel.x < item_rect.x + item_rect.width
                          /\ cursor_pos_rel.y >= item_rect.y
                          /\ cursor_pos_rel.y < item_rect.y + item_rect.height}
         IN  IF hits = {} THEN NoHit
             ELSE [some |-> TRUE, id |-> window_id, index |-> SetMin(hits)]

(* WindowManager::set_moving_keybord_state *)
set_moving_keybord_state(self, state) ==
    [self EXCEPT !.is_moving.keybord_pressed = state,
                 !.focused_id = IF ~state THEN 0 ELSE @]

(* WindowManager::set_resizing_keybord_state *)
set_resizing_keybord_state(self, state) ==
    [self EXCEPT !.is_resizing.keybord_pressed = state,
                 !.focused_id = IF ~state THEN 0 ELSE @]

(* WindowManager::start_dragging: the expect panics when the focused        *)
(* window is not managed.                                                   *)
start_dragging(self) ==
    IF ~can_control(self.is_moving) \/ self.focused_id = 0
    THEN self
    ELSE IF ~self.children[self.focused_id].managed
         THEN [self EXCEPT !.last.panicked = TRUE]
         ELSE [self EXCEPT !.last.dragged = self.focused_id]

(* settings::save_settings: the file becomes the settings *)
save_settings(self) == [self EXCEPT !.file = self.settings]

(* WindowManager::save_child_settings: the icons of the window are written *)
(* to the entry of its id_str if there is one, and the settings are saved   *)
(* in either case.                                                          *)
save_child_settings(self, window_id) ==
    IF ~self.children[window_id].managed
    THEN self
    ELSE LET child == self.children[window_id]
             stored == IF self.settings[child.id_str].some
                       THEN [self EXCEPT !.settings[child.id_str].icons = child.groups]
                       ELSE self
         IN  save_settings(stored)

(* The item a recognised double click executes *)
executed_item(self, window_id) ==
    LET cursor_pos == self.last_cursor_pos[window_id]
        hit == find_icon_at_relative_pos(self, window_id, cursor_pos)
        icons == self.children[window_id].groups
    IN  IF cursor_pos.some /\ hit.some /\ self.children[window_id].managed
           /\ hit.index < Len(icons)
        THEN icons[hit.index + 1]
        ELSE ""

(* A faulty variant of execute_group_item: a click exactly the threshold   *)
(* after the recorded one still counts as a double click.                   *)
execute_group_item_inclusive(self, window_id) ==
    LET is_double_click ==
            /\ self.last_click.some
            /\ self.last_click.id = window_id
            /\ self.now - self.last_click.time <= DOUBLE_CLICK_THRESHOLD_MS
    IN  [self EXCEPT !.last_click = IF is_double_click THEN NoClick
                                    ELSE [some |-> TRUE, id |-> window_id,
                                          time |-> self.now],
                     !.last.is_double_click = is_double_click,
                     !.last.executed = IF is_double_click
                                       THEN executed_item(self, window_id) ELSE ""]

(* WindowManager::execute_group_item *)
execute_group_item(self, window_id) ==
    LET is_double_click ==
            /\ self.last_click.some
            /\ self.last_click.id = window_id
            /\ self.now - self.last_click.time < DOUBLE_CLICK_THRESHOLD_MS
    IN  [self EXCEPT !.last_click = IF is_double_click THEN NoClick
                                    ELSE [some |-> TRUE, id |-> window_id,
                                          time |-> self.now],
                     !.last.is_double_click = is_double_click,
                     !.last.executed = IF is_double_click
                                       THEN executed_item(self, window_id) ELSE ""]

(* A faulty variant of remove_item: the item after the given one is removed *)
remove_item_next(self, window_id, index) ==
    IF self.children[window_id].managed
       /\ index < Len(self.children[window_id].groups)
    THEN save_child_settings(
             [self EXCEPT !.children[window_id].groups =
                              Vec_remove(@, IF index + 1 < Len(@) THEN index + 1 ELSE index),
                          !.hovered_icon = NoHit,
                          !.last_click = NoClick],
             window_id)
    ELSE self

(* A faulty variant of remove_item: the hovered icon is kept *)
remove_item_keeping_hover(self, window_id, index) ==
    IF self.children[window_id].managed
       /\ index < Len(self.children[window_id].groups)
    THEN save_child_settings(
             [self EXCEPT !.children[window_id].groups = Vec_remove(@, index),
                          !.last_click = NoClick],
             window_id)
    ELSE self

(* WindowManager::remove_item *)
remove_item(self, window_id, index) ==
    IF self.children[window_id].managed
       /\ index < Len(self.children[window_id].groups)
    THEN save_child_settings(
             [self EXCEPT !.children[window_id].groups = Vec_remove(@, index),
                          !.hovered_icon = NoHit,
                          !.last_click = NoClick],
             window_id)
    ELSE self

(* WindowManager::remove_window *)
remove_window(self, window_id) ==
    IF ~self.children[window_id].managed
    THEN self
    ELSE LET id_str_to_remove == self.children[window_id].id_str
         IN  save_settings(
                 [self EXCEPT
                      !.children[window_id] = NoChild,
                      !.last_cursor_pos[window_id] = NoPos,
                      !.focused_id = IF @ = window_id THEN 0 ELSE @,
                      !.hovered_icon = IF @.some /\ @.id = window_id THEN NoHit ELSE @,
                      !.last_click = IF @.some /\ @.id = window_id THEN NoClick ELSE @,
                      !.settings[id_str_to_remove] = NoEntry])

(* WindowManager::request_remove_window; answer is what                     *)
(* show_confirmation_dialog returns.                                        *)
request_remove_window(self, window_id, answer) ==
    LET asked == [self EXCEPT !.last.asked = TRUE, !.last.answer = answer]
    IN  IF answer THEN remove_window(asked, window_id) ELSE asked

(* WindowManager::remove_group_item *)
remove_group_item(self, window_id, answer) ==
    IF ~self.is_moving.keybord_pressed
    THEN self
    ELSE LET cursor_pos == self.last_cursor_pos[window_id]
             hit == find_icon_at_relative_pos(self, window_id, cursor_pos)
         IN  IF ~cursor_pos.some THEN self
             ELSE IF hit.some THEN remove_item(self, window_id, hit.index)
             ELSE request_remove_window(self, window_id, answer)

(* WindowManager::open_icon_location *)
open_icon_location(self, window_id) ==
    [self EXCEPT !.last.opened = executed_item(self, window_id)]

(* WindowManager::add_group: the expect panics when the focused window is  *)
(* not managed.                                                             *)
add_group(self, icon) ==
    IF (\A w \in Windows : ~self.children[w].managed) \/ self.focused_id = 0
    THEN self
    ELSE IF ~self.children[self.focused_id].managed
         THEN [self EXCEPT !.last.panicked = TRUE]
         ELSE save_child_settings(
                  [self EXCEPT !.children[self.focused_id].groups = Append(@, icon)],
                  self.focused_id)

(* WindowManager::update_hover_state *)
update_hover_state(self, new_hover) == [self EXCEPT !.hovered_icon = new_hover]

(* WindowManager::handle_mouse_wheel: adjust_alpha is called on the window *)
(* the cursor was last on if it is managed; changed tells whether the       *)
(* transparency of the window changed, and then its settings are saved.     *)
handle_mouse_wheel(self, changed) ==
    IF self.last_cursor_window_id # 0
       /\ self.children[self.last_cursor_window_id].managed
    THEN LET adjusted == [self EXCEPT !.last.wheeled = self.last_cursor_window_id]
         IN  IF changed
             THEN save_child_settings(adjusted, self.last_cursor_window_id)
             ELSE adjusted
    ELSE self

(* WindowManager::resize of a child: MyGraphics::resize takes the width *)
resize(self, window_id, width) ==
    IF self.children[window_id].managed
    THEN [self EXCEPT !.children[window_id].width = width]
    ELSE self

(* settings::generate_child_id: local_now is the reading of Local::now(),   *)
(* the wall clock, as "%Y%m%d%H%M%S%3f" formats it: readings of the same    *)
(* millisecond of local time are the same string.                           *)
generate_child_id(local_now) == local_now

(* WindowManager::insert of a window created for the entry id_str *)
insert(self, window_id, id_str) ==
    [self EXCEPT !.children[window_id] =
                     [managed |-> TRUE, groups |-> <<>>, id_str |-> id_str,
                      width |-> DefaultWidth],
                 !.created = window_id]

(* WindowManager::restore_icons *)
restore_icons(self, window_id, icons) ==
    [self EXCEPT !.children[window_id].groups = @ \o icons]

(* The event named kind on window_id begins: what the last event did is     *)
(* forgotten.                                                               *)
Event(self, kind, window_id, pressed) ==
    [self EXCEPT !.last = [NoLast EXCEPT !.kind = kind, !.window_id = window_id,
                                         !.pressed = pressed]]

(* main.rs handle_new_events_init: a window is created for every entry of  *)
(* settings.children, inserted and given the icons of the entry; keys is    *)
(* the order in which the map yields its keys.                              *)
RECURSIVE handle_new_events_init(_, _)
handle_new_events_init(self, keys) ==
    IF keys = <<>> THEN self
    ELSE LET id_str == Head(keys)
             window_id == self.created + 1
         IN  handle_new_events_init(
                 restore_icons(insert(self, window_id, id_str), window_id,
                               self.settings[id_str].icons),
                 Tail(keys))

(* WindowManager::new, and the windows of the settings file inserted with   *)
(* their icons restored: a group of two icons and a group of one.           *)
ManagerInit ==
    /\ \E stored \in {[NoSettings EXCEPT
                            !["20240101120000004"] = [some |-> TRUE, icons |-> <<"a", "b">>],
                            !["20240101120000005"] = [some |-> TRUE, icons |-> <<"c">>]]} :
           manager = handle_new_events_init(
                         [NoManager EXCEPT !.settings = stored, !.file = stored],
                         <<"20240101120000004", "20240101120000005">>)
    /\ IconIdle /\ FrameIdle /\ FinishIdle /\ ColorIdle
    /\ ParseIdle /\ ClampIdle /\ LayoutIdle /\ TextIdle
    /\ SurfaceIdle /\ BorderIdle

(* handle_window_event, KeyboardInput of the Control key; events of a       *)
(* window that is not managed are ignored.                                  *)
KeyboardControl(window_id, pressed) ==
    /\ manager.children[window_id].managed
    /\ (manager.keys.ctrl # 0) # pressed
    /\ LET began == [Event(manager, "control", window_id, pressed)
                         EXCEPT !.keys.ctrl = IF pressed THEN window_id ELSE 0]
           focused == IF pressed THEN [began EXCEPT !.focused_id = window_id] ELSE began
       IN  manager' = set_moving_keybord_state(focused, pressed)
    /\ UNCHANGED <<iconVars, frameVars, finishVars, colorVars, parseVars, clamp, layout, text, surface, border_calls>>

(* handle_window_event, KeyboardInput of the Shift key *)
KeyboardShift(window_id, pressed) ==
    /\ manager.children[window_id].managed
    /\ (manager.keys.shift # 0) # pressed
    /\ LET began == [Event(manager, "shift", window_id, pressed)
                         EXCEPT !.keys.shift = IF pressed THEN window_id ELSE 0]
           focused == IF pressed THEN [began EXCEPT !.focused_id = window_id] ELSE began
       IN  manager' = set_resizing_keybord_state(focused, pressed)
    /\ UNCHANGED <<iconVars, frameVars, finishVars, colorVars, parseVars, clamp, layout, text, surface, border_calls>>

(* handle_window_event, MouseInput of the left button *)
MouseLeft(window_id, pressed) ==
    /\ manager.children[window_id].managed
    /\ manager.keys.left # pressed
    /\ LET began == [Event(manager, "left", window_id, pressed)
                         EXCEPT !.keys.left = pressed]
           clicked == IF pressed THEN execute_group_item(began, window_id) ELSE began
           flagged == [clicked EXCEPT !.is_resizing.mouse_pressed = pressed,
                                      !.is_moving.mouse_pressed = pressed]
       IN  \E dragged \in {start_dragging(flagged)} :
               \E saved \in {IF ~pressed /\ (dragged.is_moving.keybord_pressed
                                             \/ dragged.is_resizing.keybord_pressed)
                              THEN save_child_settings(dragged, window_id)
                              ELSE dragged} :
                   manager' = saved
    /\ UNCHANGED <<iconVars, frameVars, finishVars, colorVars, parseVars, clamp, layout, text, surface, border_calls>>

(* handle_window_event, MouseInput of the right button, pressed; answer is  *)
(* what the confirmation dialog returns if it is shown.                     *)
MouseRight(window_id, answer) ==
    /\ manager.children[window_id].managed
    /\ LET began == Event(manager, "right", window_id, TRUE)
           removed == remove_group_item(began, window_id, answer)
       IN  manager' = IF ~removed.is_moving.keybord_pressed
                      THEN open_icon_location(removed, window_id)
                      ELSE removed
    /\ UNCHANGED <<iconVars, frameVars, finishVars, colorVars, parseVars, clamp, layout, text, surface, border_calls>>

(* handle_window_event, CursorMoved: update_cursor_pos, update_hover_state *)
(* and set_last_cursor_window                                               *)
CursorMoved(window_id, position) ==
    /\ manager.children[window_id].managed
    /\ LET began == Event(manager, "cursor", window_id, FALSE)
           moved == [began EXCEPT !.last_cursor_pos[window_id] = position]
           hovered == update_hover_state(
                          moved, find_icon_at_relative_pos(moved, window_id, position))
       IN  manager' = [hovered EXCEPT !.last_cursor_window_id = window_id]
    /\ UNCHANGED <<iconVars, frameVars, finishVars, colorVars, parseVars, clamp, layout, text, surface, border_calls>>

(* handle_window_event, CursorLeft *)
CursorLeft(window_id) ==
    /\ manager.children[window_id].managed
    /\ LET began == Event(manager, "left_window", window_id, FALSE)
           unhovered == IF began.hovered_icon.some /\ began.hovered_icon.id = window_id
                        THEN update_hover_state(began, NoHit)
                        ELSE began
       IN  manager' = save_child_settings(
                          [unhovered EXCEPT !.last_cursor_window_id = 0], window_id)
    /\ UNCHANGED <<iconVars, frameVars, finishVars, colorVars, parseVars, clamp, layout, text, surface, border_calls>>

(* handle_window_event, DroppedFile *)
DroppedFile(window_id, path) ==
    /\ manager.children[window_id].managed
    /\ Len(manager.children[window_id].groups) < MaxGroups
    /\ LET began == Event(manager, "dropped", window_id, FALSE)
       IN  manager' = add_group([began EXCEPT !.focused_id = window_id], path)
    /\ UNCHANGED <<iconVars, frameVars, finishVars, colorVars, parseVars, clamp, layout, text, surface, border_calls>>

(* handle_window_event, Resized *)
Resized(window_id, width) ==
    /\ manager.children[window_id].managed
    /\ manager.children[window_id].width # width
    /\ manager' = resize(Event(manager, "resized", window_id, FALSE), window_id, width)
    /\ UNCHANGED <<iconVars, frameVars, finishVars, colorVars, parseVars, clamp, layout, text, surface, border_calls>>

(* handle_device_event, MouseWheel with a vertical movement *)
MouseWheel(changed) ==
    /\ manager.is_moving.keybord_pressed
    /\ manager' = handle_mouse_wheel(Event(manager, "wheel", 0, FALSE), changed)
    /\ UNCHANGED <<iconVars, frameVars, finishVars, colorVars, parseVars, clamp, layout, text, surface, border_calls>>

(* handle_user_event, the New Group menu item; local_now is the reading of  *)
(* the wall clock.  The entry of the new id is inserted into                *)
(* settings.children, replacing one that is there, and the window is        *)
(* created and inserted.                                                    *)
NewGroup(local_now) ==
    /\ manager.created < Cardinality(Windows)
    /\ LET began == Event(manager, "new_group", manager.created + 1, FALSE)
           new_id_str == generate_child_id(local_now)
           default_settings == [some |-> TRUE, icons |-> <<>>]
       IN  manager' = insert([began EXCEPT !.settings[new_id_str] = default_settings],
                             began.created + 1, new_id_str)
    /\ UNCHANGED <<iconVars, frameVars, finishVars, colorVars, parseVars, clamp, layout, text, surface, border_calls>>

(* Time passes between two events *)
Tick(delay) ==
    /\ manager.now + delay <= MaxNow
    /\ manager' = [manager EXCEPT !.now = @ + delay]
    /\ UNCHANGED <<iconVars, frameVars, finishVars, colorVars, parseVars, clamp, layout, text, surface, border_calls>>

ManagerNext ==
    \/ \E window_id \in Windows, pressed \in BOOLEAN : KeyboardControl(window_id, pressed)
    \/ \E window_id \in Windows, pressed \in BOOLEAN : KeyboardShift(window_id, pressed)
    \/ \E window_id \in Windows, pressed \in BOOLEAN : MouseLeft(window_id, pressed)
    \/ \E window_id \in Windows, answer \in BOOLEAN : MouseRight(window_id, answer)
    \/ \E window_id \in Windows, position \in CursorPositions :
           CursorMoved(window_id, position)
    \/ \E delay \in Delays : Tick(delay)

SpecManager == ManagerInit /\ [][ManagerNext]_vars

(* The groups and their settings: the event loop starts with the settings   *)
(* file of a first run, which has no group, or with one that has a group of *)
(* two icons; groups are created from the menu, files are dropped on them,  *)
(* items and windows are removed with Ctrl and the right button.            *)
GroupsInit ==
    /\ \E keys \in {<<>>, <<"20240101120000004">>} :
           \E stored \in {[id_str \in LocalTimes |->
                                IF keys # <<>> /\ id_str = keys[1]
                                THEN [some |-> TRUE, icons |-> <<"a", "b">>]
                                ELSE NoEntry]} :
               manager = handle_new_events_init(
                             [NoManager EXCEPT !.settings = stored, !.file = stored],
                             keys)
    /\ IconIdle /\ FrameIdle /\ FinishIdle /\ ColorIdle
    /\ ParseIdle /\ ClampIdle /\ LayoutIdle /\ TextIdle
    /\ SurfaceIdle /\ BorderIdle

(* The cursor position of these runs: inside the rectangle of item 1 of a   *)
(* window two items wide, empty space in a window one item wide or of       *)
(* fewer than two items.                                                    *)
GroupsCursorPositions == {[some |-> TRUE, x |-> Px(150), y |-> Px(40)]}

GroupsNext ==
    \/ \E local_now \in LocalTimes : NewGroup(local_now)
    \/ \E window_id \in Windows, path \in DroppedPaths : DroppedFile(window_id, path)
    \/ \E window_id \in Windows, pressed \in BOOLEAN : KeyboardControl(window_id, pressed)
    \/ \E window_id \in Windows, answer \in BOOLEAN : MouseRight(window_id, answer)
    \/ \E window_id \in Windows, position \in GroupsCursorPositions :
           CursorMoved(window_id, position)
    \/ \E window_id \in Windows : CursorLeft(window_id)
    \/ \E window_id \in Windows, width \in ChildWidths : Resized(window_id, width)
    \/ \E changed \in BOOLEAN : MouseWheel(changed)

SpecGroups == GroupsInit /\ [][GroupsNext]_vars


(* The items of window_id whose rectangle contains the last cursor position *)
(* recorded for the window, as indexes from 1.                              *)
UnderCursor(self, window_id) ==
    LET cursor_pos == self.last_cursor_pos[window_id]
    IN  {i \in 1..Len(self.children[window_id].groups) :
             LET item_rect ==
                     MyGraphics_get_item_rect_f32(
                         child_graphics[self.children[window_id].width], i - 1)
             IN  /\ cursor_pos.some
                 /\ item_rect.some
                 /\ item_rect.x <= cursor_pos.x
                 /\ cursor_pos.x < item_rect.x + item_rect.width
                 /\ item_rect.y <= cursor_pos.y
                 /\ cursor_pos.y < item_rect.y + item_rect.height}

(* The sequence without its i-th element *)
Without(seq, i) == [k \in 1..(Len(seq) - 1) |-> IF k < i THEN seq[k] ELSE seq[k + 1]]

(* The step is the handling of a press of the left button *)
LeftPressStep ==
    /\ manager'.now = manager.now
    /\ manager'.last.kind = "left"
    /\ manager'.last.pressed

(* The step is the handling of a press of the right button *)
RightPressStep ==
    /\ manager'.now = manager.now
    /\ manager'.last.kind = "right"

(* C25: a press of the left button is a double click exactly when the      *)
(* recorded click was on the same window less than 500 ms earlier; a        *)
(* double click clears the record (the next press is a first click again),  *)
(* any other press is recorded and executes no item, and a double click     *)
(* executes at most the one item under the last recorded cursor position.   *)
C25_DoubleClickExecutes ==
    [][LeftPressStep =>
         LET window_id == manager'.last.window_id
             recorded == manager.last_click
             within == /\ recorded.some
                       /\ recorded.id = window_id
                       /\ manager.now - recorded.time < 500
             under == UnderCursor(manager, window_id)
         IN  /\ manager'.last.is_double_click <=> within
             /\ within => ~manager'.last_click.some
             /\ ~within => /\ manager'.last.executed = ""
                           /\ manager'.last_click =
                                  [some |-> TRUE, id |-> window_id, time |-> manager.now]
             /\ ~recorded.some => ~manager'.last.is_double_click
             /\ manager'.last.executed # "" =>
                    /\ Cardinality(under) = 1
                    /\ \A i \in under :
                           manager'.last.executed = manager.children[window_id].groups[i]
             /\ manager'.children = manager.children
      ]_vars

(* C25 witness: 250 ms after a first click on window 1, with the cursor    *)
(* over its second item, a second click was a double click, executed that   *)
(* item and cleared the record.                                             *)
C25_Witness ==
    /\ manager.last.kind = "left"
    /\ manager.last.pressed
    /\ manager.last.window_id = 1
    /\ manager.last.is_double_click
    /\ manager.last.executed = "b"
    /\ manager.now = 250
    /\ ~manager.last_click.some

(* C26: a press of the right button removes something only while Ctrl is   *)
(* held: with Ctrl held and the last cursor position inside the rectangle   *)
(* of item i exactly that item is removed from the window, the others       *)
(* keeping their order; with Ctrl held over empty space the window is       *)
(* removed if and only if the confirmation dialog returns Yes; other        *)
(* windows are untouched, and without Ctrl nothing is removed.              *)
C26_RightPressRemoves ==
    [][RightPressStep =>
         LET window_id == manager'.last.window_id
             ctrl == manager.keys.ctrl # 0
             before == manager.children[window_id]
             after == manager'.children[window_id]
             under == UnderCursor(manager, window_id)
         IN  /\ ~ctrl => manager'.children = manager.children
             /\ \A other \in Windows \ {window_id} :
                    manager'.children[other] = manager.children[other]
             /\ (ctrl /\ under # {}) =>
                    \E i \in under :
                        /\ under = {i}
                        /\ after.managed
                        /\ after.groups = Without(before.groups, i)
                        /\ ~manager'.last.asked
             /\ (ctrl /\ under = {} /\ manager.last_cursor_pos[window_id].some) =>
                    /\ manager'.last.asked
                    /\ IF manager'.last.answer
                       THEN ~after.managed
                       ELSE after = before
             /\ after # before =>
                    \/ ~after.managed /\ manager'.last.asked /\ manager'.last.answer
                    \/ \E i \in under : after.groups = Without(before.groups, i)
      ]_vars

(* C26 witness: with Ctrl held and the cursor over the first item of       *)
(* window 1, a press of the right button removed that item and left the     *)
(* second, without a dialog; the other window still has its item.           *)
C26_Witness ==
    /\ manager.last.kind = "right"
    /\ manager.last.window_id = 1
    /\ manager.keys.ctrl # 0
    /\ manager.children[1].managed
    /\ manager.children[1].groups = <<"b">>
    /\ manager.children[2].managed
    /\ manager.children[2].groups = <<"c">>
    /\ manager.last_cursor_pos[1] = [some |-> TRUE, x |-> Px(50), y |-> Px(40)]
    /\ ~manager.last.asked

(* C27 as stated: while Ctrl is held, pressed on a managed window w and    *)
(* not yet released, focused_id is Some(w), and a press of the left button  *)
(* on w starts a drag of w, whatever Ctrl, Shift and mouse events came      *)
(* before; a drag is never started when Ctrl or the left button is up.      *)
C27_CtrlHeldDragStarts ==
    /\ \A w \in Windows :
           (manager.keys.ctrl = w /\ manager.children[w].managed) =>
               /\ manager.focused_id = w
               /\ (manager.last.kind = "left" /\ manager.last.pressed
                   /\ manager.last.window_id = w) => manager.last.dragged = w
    /\ manager.last.dragged # 0 => (manager.keys.ctrl # 0 /\ manager.keys.left)

(* C34 as stated: the managed windows have pairwise different id_str, and   *)
(* the handling of New Group inserts a key that settings.children did not   *)
(* have, so it leaves every entry that was there as it was.                 *)
C34_IdStrsAreDistinct ==
    /\ \A w1, w2 \in Windows :
           (w1 # w2 /\ manager.children[w1].managed /\ manager.children[w2].managed)
               => manager.children[w1].id_str # manager.children[w2].id_str
    /\ manager.last.kind = "new_group" =>
           \A w \in Windows \ {manager.last.window_id} :
               manager.children[w].managed =>
                   /\ manager.settings[manager.children[w].id_str].some
                   /\ manager.settings[manager.children[w].id_str].icons
                          = manager.children[w].groups


(* The windows the WindowManager holds *)
Managed(self) == {w \in Windows : self.children[w].managed}

(* The keys of settings.children *)
SettingsKeys(self) == {id_str \in LocalTimes : self.settings[id_str].some}

(* C36 as stated: in every state reached by New Group events and window    *)
(* removals the keys of settings.children are the id_str of the managed     *)
(* windows, one entry for each window.                                      *)
C36_SettingsKeysAreWindowIds ==
    /\ SettingsKeys(manager) = {manager.children[w].id_str : w \in Managed(manager)}
    /\ Cardinality(SettingsKeys(manager)) = Cardinality(Managed(manager))


(* The step added an icon to a window or removed an icon from a window     *)
(* that stays: a file was dropped, or the right button was pressed with     *)
(* Ctrl held over an item.                                                  *)
IconChangeStep ==
    /\ manager'.last.kind \in {"dropped", "right"}
    /\ manager'.last.window_id \in Windows
    /\ manager.children[manager'.last.window_id].managed
    /\ manager'.children[manager'.last.window_id].managed
    /\ manager'.children[manager'.last.window_id].groups
           # manager.children[manager'.last.window_id].groups

(* C35 as stated: after a completed addition or removal of an icon the     *)
(* entry of the window in settings.children lists the paths of the icons    *)
(* of the window in their order, the file holds the settings, and the       *)
(* entries of the other windows are as they were.                           *)
C35_IconChangeIsSaved ==
    [][IconChangeStep =>
         LET window_id == manager'.last.window_id
             entry == manager'.settings[manager'.children[window_id].id_str]
         IN  /\ entry.some
             /\ entry.icons = manager'.children[window_id].groups
             /\ manager'.file = manager'.settings
             /\ \A other \in Managed(manager) \ {window_id} :
                    manager'.settings[manager.children[other].id_str]
                        = manager.settings[manager.children[other].id_str]
      ]_vars


(* The fields of the WindowManager that remove_window clears do not name   *)
(* the window w.                                                            *)
Forgotten(self, w) ==
    /\ self.last_cursor_pos[w] = NoPos
    /\ self.focused_id # w
    /\ ~(self.hovered_icon.some /\ self.hovered_icon.id = w)
    /\ ~(self.last_click.some /\ self.last_click.id = w)

(* What holds of a window that is not managed, removed or never created:   *)
(* it is absent from last_cursor_pos and is not named by focused_id,        *)
(* hovered_icon or last_click; no handler panics, and a drag is started     *)
(* and the wheel changes the transparency only of a managed window.         *)
RemovedWindowIsForgotten ==
    /\ \A w \in Windows : ~manager.children[w].managed => Forgotten(manager, w)
    /\ ~manager.last.panicked
    /\ manager.last.dragged # 0 => manager.children[manager.last.dragged].managed
    /\ manager.last.wheeled # 0 => manager.children[manager.last.wheeled].managed

(* C37 as stated: after remove_window(w) no field of the WindowManager     *)
(* refers to w, last_cursor_window_id included.                             *)
C37_NoFieldRefersToRemoved ==
    \A w \in Windows :
        ~manager.children[w].managed =>
            /\ Forgotten(manager, w)
            /\ manager.last_cursor_window_id # w


(* C38: in every reachable state a hovered icon is an item of a managed    *)
(* window: hovered_icon = Some((w, i)) implies that w is managed and that   *)
(* i is less than the number of icons of w.                                 *)
C38_HoveredIconExists ==
    manager.hovered_icon.some =>
        /\ manager.hovered_icon.id \in Windows
        /\ manager.children[manager.hovered_icon.id].managed
        /\ manager.hovered_icon.index
               < Len(manager.children[manager.hovered_icon.id].groups)

(* C38 witness: window 1, restored with the icons a and b, has lost b and  *)
(* been given d by a drop; its second item was hovered while the window     *)
(* was two items wide and is still the hovered icon after the window has    *)
(* been made one item wide.                                                 *)
C38_Witness ==
    /\ manager.hovered_icon = [some |-> TRUE, id |-> 1, index |-> 1]
    /\ manager.children[1].managed
    /\ manager.children[1].groups = <<"a", "d">>
    /\ manager.children[1].width = 116
    /\ manager.last.kind = "resized"

=============================================================================
